---- MODULE Spec2Model ----
(***************************************************************************)
(* Verification model of the compression-system flow network of            *)
(* src/hyperloop/cycle: Performance (compression_system.py), Transmogrifier*)
(* (transmogrifier.py) and SplitterW (splitter.py).                        *)
(*                                                                         *)
(* Conventions.  A component's params / unknowns / resids mappings are     *)
(* functions whose DOMAIN is the set of names the constructor declares     *)
(* (add_param / add_output / add_state); reading a name outside the DOMAIN *)
(* is Python's KeyError, reading an attribute that no statement sets is    *)
(* AttributeError.  Scalars are integers: a Mach number is counted in      *)
(* units of 1e-4 (MachOne = Mach 1.0), the other quantities in arbitrary   *)
(* integer units.  An operation that raises ends with <c>_pc = "failed"    *)
(* and the exception's name in <c>_err; writes made before the raise stay. *)
(* A constructor is modelled statement by statement: a statement that      *)
(* raises contributes nothing to the instance and is listed in its raises, *)
(* and the methods are modelled on the instance the other statements set   *)
(* up.                                                                     *)
(***************************************************************************)
EXTENDS Integers, Sequences, FiniteSets, TLC

VARIABLES
    pf_params,      \* Performance: params mapping
    pf_unknowns,    \* Performance: unknowns mapping (pwr, Fnet)
    pf_resids,      \* Performance: resids mapping (Ps_bearing_resid)
    pf_pc,          \* "idle" | "done" | "failed"
    pf_err          \* "none" or the name of the exception raised

pf_vars == <<pf_params, pf_unknowns, pf_resids, pf_pc, pf_err>>

VARIABLES
    tm_mode,        \* Transmogrifier: "area" | "MN", fixed by __init__
    tm_passthrus,   \* Transmogrifier: the PassThrough components __init__ adds
    tm_params,      \* Transmogrifier: params mapping of the group
    tm_unknowns,    \* Transmogrifier: unknowns mapping of the group
    tm_resids,      \* Transmogrifier: resids mapping of the group
    tm_pc,          \* "idle" | "done" | "failed"
    tm_err,         \* "none" or the name of the exception raised
    tm_trials,      \* Mach numbers the last solve handed to f, in order
    tm_bracket      \* the (a, b) the last solve passed to brentq, <<>> if none

tm_vars == <<tm_mode, tm_passthrus, tm_params, tm_unknowns, tm_resids,
             tm_pc, tm_err, tm_trials, tm_bracket>>

VARIABLES
    sp_mode,        \* SplitterW: "area" | "MN", fixed by __init__
    sp_init,        \* SplitterW: what __init__ set up (attributes, pass-throughs, raises)
    sp_params,      \* SplitterW: params mapping of the group
    sp_stat,        \* SplitterW: out1_stat / out2_stat (W, MN_target, MN, area), by branch
    sp_unknowns,    \* SplitterW: unknowns written by the pass-throughs
    sp_resids,      \* SplitterW: resids mapping (area_resid1, area_resid2)
    sp_pc,          \* "idle" | "done" | "failed"
    sp_err,         \* "none" or the name of the exception raised
    sp_evals        \* residual evaluations the last solve made

sp_vars == <<sp_mode, sp_init, sp_params, sp_stat, sp_unknowns, sp_resids,
             sp_pc, sp_err, sp_evals>>

VARIABLES
    gr_root,        \* graph evaluation: the root group run, "none" before the first
    gr_pc,          \* "idle" | "running" | "done" | "failed"
    gr_next,        \* index of the stage the run evaluates next
    gr_err,         \* "none" or the name of the exception that reached the caller
    gr_ran,         \* stages evaluated by the current run, in order
    cs_stages,      \* CompressionSystem: the stages __init__ added, in order
    cs_conns,       \* CompressionSystem: the connections __init__ made (src, tgt)
    hs_flow         \* HyperloopSim: what each connect_flow call of __init__ did

gr_vars == <<gr_root, gr_pc, gr_next, gr_err, gr_ran, cs_stages, cs_conns, hs_flow>>

VARIABLES
    tl_inst,        \* TubeLimitFlow: per instance, its params, unknowns and the
                    \* locals of the solve_nonlinear call in progress
    tl_out,         \* TubeLimitFlow: the list cells  out = [None]  of the calls
    tl_mixed        \* TubeLimitFlow: per instance, whether a step of another
                    \* instance ran while its solve_nonlinear call was in progress

tl_vars == <<tl_inst, tl_out, tl_mixed>>

VARIABLES
    ct_class,       \* construction: the class whose __init__ is running
    ct_mode,        \* construction: the mode argument of the call
    ct_pc,          \* construction: "idle" | "running" | "done" | "failed"
    ct_next,        \* construction: index of the next statement of __init__
    ct_err,         \* construction: the exception raised, and
    ct_line,        \*   the line that raised it (0: none)
    ct_attrs,       \* construction: the attributes assigned on self
    ct_added        \* construction: the params, states and sub-components added

ct_vars == <<ct_class, ct_mode, ct_pc, ct_next, ct_err, ct_line, ct_attrs, ct_added>>

VARIABLES
    pl_pc,          \* plot: "idle" | "loop" | "after" | "draw" | "done" | "failed"
    pl_x,           \* plot: len(x_array)
    pl_ny,          \* plot: len(y_varnames)
    pl_suppress,    \* plot: the argument suppress_errs
    pl_k,           \* plot: iterations of the sweep loop begun
    pl_opt_num,     \* plot: opt_num
    pl_y,           \* plot: len(y_arrays[i]) for each i
    pl_stdout,      \* plot: the stream sys.stdout names, and whether
                    \*   sys.__stdout__ has been closed
    pl_raised,      \* plot: whether a run of the problem raised
    pl_err,         \* plot: the exception that left plot ("none": none)
    pl_drawn        \* plot: lines drawn by ax.plot

pl_vars == <<pl_pc, pl_x, pl_ny, pl_suppress, pl_k, pl_opt_num, pl_y, pl_stdout,
             pl_raised, pl_err, pl_drawn>>

VARIABLES
    bf_params,      \* BypassFlow: params (rhot, bypass_area, total_W, percent_to_bypass)
    bf_unknowns,    \* BypassFlow: unknowns (bypass_W)
    bf_pc           \* BypassFlow: "idle" | "done"

bf_vars == <<bf_params, bf_unknowns, bf_pc>>

(* ----------------------------- bounds --------------------------------- *)
\* Largest scalar the Driver feeds to Performance.
MaxPerfVal == 2

PerfVals == 1..MaxPerfVal

\* Largest inbound mass flow the Driver feeds to a stage.
MaxW == 2

\* Number of distinct inbound total states the Driver feeds to a stage.
MaxFlow == 2

\* Largest tube radius the Driver feeds to TubeLimitFlow.
MaxRadius == 3

(* ------------------------ values and strings -------------------------- *)
\* Mach 1.0 in the model's Mach unit (1e-4).
MachOne == 10000

\* A Python value handed to the % operator: a str or an int.
Str(s) == [t |-> "str", v |-> s]
Num(n) == [t |-> "int", v |-> n]

IsSpec(tok) == tok \in {"%s", "%d"}

RECURSIVE FormatFrom(_, _, _, _, _)
FormatFrom(template, args, i, j, acc) ==
    IF i > Len(template)
    THEN IF j <= Len(args)
         THEN [err |-> "TypeError", s |-> acc]   \* not all arguments converted
         ELSE [err |-> "none", s |-> acc]
    ELSE IF ~IsSpec(template[i])
    THEN FormatFrom(template, args, i + 1, j, acc \o template[i])
    ELSE IF j > Len(args)
    THEN [err |-> "TypeError", s |-> acc]        \* not enough arguments
    ELSE IF template[i] = "%d" /\ args[j].t # "int"
    THEN [err |-> "TypeError", s |-> acc]        \* %d format: a number is required
    ELSE FormatFrom(template, args, i + 1, j + 1,
                    acc \o (IF args[j].t = "int" THEN ToString(args[j].v)
                                                ELSE args[j].v))

\* Python's  template % args : the template is given as its pieces, each
\* conversion specifier (%s, %d) a piece of its own; a specifier consumes
\* the next argument, %d refuses a str, and a mismatch in number raises.
Format(template, args) == FormatFrom(template, args, 1, 1, "")

RECURSIVE JoinFrom(_, _)
JoinFrom(template, i) ==
    IF i > Len(template) THEN "" ELSE template[i] \o JoinFrom(template, i + 1)

\* A string literal used as it stands (no % applied): specifiers stay in it.
Literal(template) == JoinFrom(template, 1)

\* The element of a one-element set: Only({e(x) : x \in {v}}) names v once.
Only(S) == CHOOSE x \in S : TRUE

\* The total-state variables both stages loop over.
TotVars == {"h", "T", "P", "rho", "gamma", "Cp", "Cv", "S", "n", "n_moles"}

\* The inbound total state number k (k in 1..MaxFlow), one value per variable.
TotVal(v, k) ==
    LET base == CASE v = "h" -> 10 [] v = "T" -> 20 [] v = "P" -> 30
                  [] v = "rho" -> 40 [] v = "gamma" -> 50 [] v = "Cp" -> 60
                  [] v = "Cv" -> 70 [] v = "S" -> 80 [] v = "n" -> 90
                  [] OTHER -> 100
    IN  base + k

\* FlowIn('Fl_I') (pycycle): the inbound total-state params, each mapped to
\* the total-state variable it carries.
FlowIn_tot_var ==
    [n \in {"Fl_I:tot:" \o v : v \in TotVars} |->
        CHOOSE v \in TotVars : n = "Fl_I:tot:" \o v]

(* --------------------------- Performance ------------------------------ *)
\* The params Performance.__init__ declares with add_param.
Performance_param_names ==
    {"C1_pwr", "C2_pwr", "Fg", "F_ram", "Ps_bearing_target", "Ps_bearing"}

\* State of a Performance instance after __init__: every default is 0.0.
Performance_init ==
    [params   |-> [k \in Performance_param_names |-> 0],
     unknowns |-> [k \in {"pwr", "Fnet"} |-> 0],
     resids   |-> [k \in {"Ps_bearing_resid"} |-> 0]]

\* Mutant: total power taken from the first compressor alone.
Performance_pwr_mut(params) == params["C1_pwr"]

\* compression_system.py line 30: unknowns['pwr'].
Performance_pwr(params) == params["C1_pwr"] + params["C2_pwr"]

\* The key line 31 reads the ram drag under.
Performance_ram_key == "Fram"

\* Performance.apply_nonlinear, statement by statement.  Line 31 reads
\* params['Fram'], a name no add_param declares (line 18 declares 'F_ram'):
\* the read raises KeyError after line 30 has written pwr, and line 32 is
\* not reached.
Performance_apply_nonlinear(params, unknowns, resids) ==
    LET u1 == [unknowns EXCEPT !["pwr"] = Performance_pwr(params)]
    IN  IF Performance_ram_key \notin DOMAIN params
        THEN [err |-> "KeyError", unknowns |-> u1, resids |-> resids]
        ELSE [err      |-> "none",
              unknowns |-> [u1 EXCEPT !["Fnet"] =
                               params["Fg"] + params[Performance_ram_key]],
              resids   |-> [resids EXCEPT !["Ps_bearing_resid"] =
                               params["Ps_bearing"] - params["Ps_bearing_target"]]]

\* Performance.solve_nonlinear delegates to apply_nonlinear.
Performance_solve_nonlinear(params, unknowns, resids) ==
    Performance_apply_nonlinear(params, unknowns, resids)

\* The Driver writes the connected inputs of perf (comp1.power, comp2.power,
\* nozzle.Fg, inlet.F_ram, comp2.Fl_O:stat:P and the bearing target).
Perf_set_params ==
    /\ \E c1 \in PerfVals, c2 \in PerfVals, fg \in PerfVals, fr \in PerfVals,
          ps \in PerfVals, pt \in PerfVals :
          pf_params' = [pf_params EXCEPT !["C1_pwr"] = c1, !["C2_pwr"] = c2,
                           !["Fg"] = fg, !["F_ram"] = fr,
                           !["Ps_bearing"] = ps, !["Ps_bearing_target"] = pt]
    /\ pf_pc' = "idle"
    /\ pf_err' = "none"
    /\ UNCHANGED <<pf_unknowns, pf_resids>>
    /\ UNCHANGED <<tm_vars, sp_vars, gr_vars, tl_vars, ct_vars, pl_vars, bf_vars>>

\* One evaluation of perf by the framework (solve_nonlinear).
Perf_solve ==
    /\ pf_pc = "idle"
    /\ \E r \in {Performance_solve_nonlinear(pf_params, pf_unknowns, pf_resids)} :
           /\ pf_unknowns' = r.unknowns
           /\ pf_resids' = r.resids
           /\ pf_err' = r.err
           /\ pf_pc' = IF r.err = "none" THEN "done" ELSE "failed"
    /\ UNCHANGED pf_params
    /\ UNCHANGED <<tm_vars, sp_vars, gr_vars, tl_vars, ct_vars, pl_vars, bf_vars>>

(* -------------------------- Transmogrifier ---------------------------- *)
\* Lower end of the subsonic bracket, 1e-4 (transmogrifier.py line 98).
brentq_lo == 1

\* Upper end of the supersonic bracket, 50.0 (line 100).
brentq_hi == 500000

\* scipy.optimize.brentq's default maxiter; the calls of lines 98 and 100
\* pass none.
brentq_maxiter == 100

\* TransmogrifierCalc.__init__ (lines 14-29): the params it declares, under
\* the names the group knows them by (area_out is not promoted: calc.area_out).
TransmogrifierCalc_param_names(mode) ==
    IF mode = "area" THEN {"area_out_target", "calc.area_out", "shock"}
                     ELSE {"MN_out_target"}

\* The PassThrough components of lines 85-86, one per total-state variable:
\* the component's name is formatted with v_name, the two variable names are
\* the literals 'Fl_I:tot:%s' and 'Fl_O:tot:%s', to which no % is applied.
Transmogrifier_passthrus ==
    { [name  |-> Format(<<"passthru_tot:", "%s">>, <<Str(v)>>).s,
       i_var |-> Literal(<<"Fl_I:tot:", "%s">>),
       o_var |-> Literal(<<"Fl_O:tot:", "%s">>)] : v \in TotVars }
    \cup { [name |-> "passthru_FAR", i_var |-> "Fl_I:FAR", o_var |-> "Fl_O:FAR"] }

\* State of a Transmogrifier(mode=mode) after __init__ (lines 44-88): the
\* params of FlowIn('Fl_I'), of set_stat, of calc and of the pass-throughs,
\* the unknowns of set_stat and of the pass-throughs, the state of calc.
Transmogrifier_init(mode) ==
    LET pnames == DOMAIN FlowIn_tot_var
                  \cup {"Fl_I:stat:MN", "Fl_I:stat:W", "Fl_I:FAR",
                        "set_stat.MN_target"}
                  \cup {p.i_var : p \in Transmogrifier_passthrus}
                  \cup TransmogrifierCalc_param_names(mode)
        unames == {"Fl_O:stat:MN", "Fl_O:stat:area"}
                  \cup {p.o_var : p \in Transmogrifier_passthrus}
    IN  [params   |-> [k \in pnames |->
                         IF k = "shock" THEN FALSE
                         ELSE IF k \in {"MN_out_target", "set_stat.MN_target"}
                              THEN MachOne
                         ELSE 0],
         unknowns |-> [k \in unames |-> 0],
         resids   |-> [k \in (IF mode = "area" THEN {"calc.area_resid"} ELSE {})
                          |-> 0]]

\* SetStaticMN (pycycle; created and connected at lines 66-71): the flow area
\* that passes mass flow W at Mach MN.  It falls with MN up to Mach 1, where
\* it is least, and grows with MN beyond.
AreaOf(W, MN) ==
    IF MN <= MachOne THEN (W * MachOne) \div MN ELSE (W * MN) \div MachOne

\* Mutant: set_stat.W is not fed from the inbound flow and keeps its default.
SetStaticMN_solve_mut(mode, st) ==
    [st EXCEPT !.unknowns["Fl_O:stat:MN"] = st.params["set_stat.MN_target"],
               !.unknowns["Fl_O:stat:area"] = 0]

\* set_stat's solve: Pt, S and W arrive over the connections of lines 69-71,
\* MN_target over that of line 83 (mode "MN") or as f left it (mode "area").
SetStaticMN_solve(mode, st) ==
    Only({ [st EXCEPT
              !.params["set_stat.MN_target"] = MN,
              !.unknowns["Fl_O:stat:MN"] = MN,
              !.unknowns["Fl_O:stat:area"] = AreaOf(st.params["Fl_I:stat:W"], MN)] :
           MN \in {IF mode = "MN" THEN st.params["MN_out_target"]
                                  ELSE st.params["set_stat.MN_target"]} })

\* TransmogrifierCalc.apply_nonlinear (lines 34-38).
TransmogrifierCalc_apply_nonlinear(mode, params, resids) ==
    IF mode = "area"
    THEN [resids EXCEPT !["calc.area_resid"] =
             params["calc.area_out"] - params["area_out_target"]]
    ELSE resids

\* TransmogrifierCalc.solve_nonlinear (lines 31-32):
\*     def solve_nonlinear(self, params, unknowns, unknowns):
\*         self.apply_nonlinear(params, unknowns, resids)
\* The parameter list names unknowns twice, which Python refuses, and the
\* body reads resids, which no parameter binds: a call of it raises before
\* apply_nonlinear is entered, in both modes.
TransmogrifierCalc_solve_nonlinear(mode, params, resids) ==
    [err |-> "SyntaxError", resids |-> resids]

RECURSIVE PassThrough_solve_all(_, _)
\* The pass-throughs' solves: unknowns[o_var] = params[i_var], each.
PassThrough_solve_all(todo, st) ==
    IF todo = {} THEN st
    ELSE Only({ PassThrough_solve_all(todo \ {p},
                    [st EXCEPT !.unknowns[p.o_var] = st.params[p.i_var]]) :
                p \in {CHOOSE x \in todo : TRUE} })

\* Line 80 connects Fl_O:stat:area to calc.area_out (mode "area").
Transmogrifier_connect_calc(mode, st) ==
    IF mode = "area"
    THEN [st EXCEPT !.params["calc.area_out"] = st.unknowns["Fl_O:stat:area"]]
    ELSE st

\* Group.solve_nonlinear of the Transmogrifier (super(...).solve_nonlinear,
\* lines 94 and 103): the children run once in the order __init__ added
\* them - flow_in, set_stat, calc, the pass-throughs - and the first raise
\* ends the run.
Transmogrifier_group_solve(mode, passthrus, st) ==
    Only({ Only({ IF c.err # "none"
                  THEN [err |-> c.err, st |-> s2]
                  ELSE [err |-> "none",
                        st  |-> PassThrough_solve_all(passthrus,
                                    [s2 EXCEPT !.resids = c.resids])] :
                  c \in {TransmogrifierCalc_solve_nonlinear(mode, s2.params,
                                                            s2.resids)} }) :
           s2 \in {Transmogrifier_connect_calc(mode, SetStaticMN_solve(mode, st))} })

\* The closure f of lines 92-95: writes the trial Mach to
\* params['set_stat.MN_target'], runs the group, returns the area residual.
Transmogrifier_f(mode, passthrus, st, MN_exit) ==
    Only({ [err |-> r.err, st |-> r.st,
            val |-> IF r.err = "none" THEN r.st.resids["calc.area_resid"] ELSE 0] :
           r \in {Transmogrifier_group_solve(mode, passthrus,
                      [st EXCEPT !.params["set_stat.MN_target"] = MN_exit])} })

Sign(x) == IF x > 0 THEN 1 ELSE IF x < 0 THEN -1 ELSE 0

RECURSIVE brentq_iter(_, _, _, _, _, _, _, _, _)
\* brentq's loop: the bracket [lo, hi] keeps a sign change and shrinks about
\* a trial point inside it; it ends on a zero residual, on a bracket of one
\* Mach unit (xtol), or with RuntimeError after brentq_maxiter iterations.
brentq_iter(mode, passthrus, st, lo, flo, hi, fhi, i, trials) ==
    IF hi - lo <= 1
    THEN [err |-> "none", st |-> st, root |-> lo, trials |-> trials]
    ELSE IF i >= brentq_maxiter
    THEN [err |-> "RuntimeError", st |-> st, root |-> lo, trials |-> trials]
    ELSE Only({ IF r.err # "none"
                THEN [err |-> r.err, st |-> r.st, root |-> (lo + hi) \div 2,
                      trials |-> Append(trials, (lo + hi) \div 2)]
                ELSE IF r.val = 0
                THEN [err |-> "none", st |-> r.st, root |-> (lo + hi) \div 2,
                      trials |-> Append(trials, (lo + hi) \div 2)]
                ELSE IF Sign(r.val) = Sign(flo)
                THEN brentq_iter(mode, passthrus, r.st, (lo + hi) \div 2, r.val,
                                 hi, fhi, i + 1, Append(trials, (lo + hi) \div 2))
                ELSE brentq_iter(mode, passthrus, r.st, lo, flo,
                                 (lo + hi) \div 2, r.val, i + 1,
                                 Append(trials, (lo + hi) \div 2)) :
                r \in {Transmogrifier_f(mode, passthrus, st, (lo + hi) \div 2)} })

\* The second half of brentq's start: f(b) and the sign test.
brentq_from_a(mode, passthrus, ra, a, b) ==
    Only({ IF rb.err # "none"
           THEN [err |-> rb.err, st |-> rb.st, root |-> b, trials |-> <<a, b>>]
           ELSE IF Sign(ra.val) * Sign(rb.val) > 0
           THEN [err |-> "ValueError", st |-> rb.st, root |-> b, trials |-> <<a, b>>]
           ELSE IF ra.val = 0
           THEN [err |-> "none", st |-> rb.st, root |-> a, trials |-> <<a, b>>]
           ELSE IF rb.val = 0
           THEN [err |-> "none", st |-> rb.st, root |-> b, trials |-> <<a, b>>]
           ELSE brentq_iter(mode, passthrus, rb.st, a, ra.val, b, rb.val,
                            0, <<a, b>>) :
           rb \in {Transmogrifier_f(mode, passthrus, ra.st, b)} })

\* scipy.optimize.brentq(f, a, b) as lines 98 and 100 call it: f(a), then
\* f(b); ValueError unless the two differ in sign; an end that is a zero of f
\* is returned at once.  An exception raised by f passes through.
brentq(mode, passthrus, st, a, b) ==
    Only({ IF ra.err # "none"
           THEN [err |-> ra.err, st |-> ra.st, root |-> a, trials |-> <<a>>]
           ELSE brentq_from_a(mode, passthrus, ra, a, b) :
           ra \in {Transmogrifier_f(mode, passthrus, st, a)} })

\* Mutant: the shock flag is ignored when the bracket is chosen.
Transmogrifier_subsonic_mut(params) == params["Fl_I:stat:MN"] < MachOne

\* The test of line 97: the subsonic bracket is taken when the inbound Mach
\* is below 1.0 or shock is set.
Transmogrifier_subsonic(params) ==
    params["Fl_I:stat:MN"] < MachOne \/ params["shock"]

\* brentq(f, a, b), with the bracket it was called on kept beside its result.
Transmogrifier_brentq(mode, passthrus, st, a, b) ==
    Only({ [err |-> r.err, st |-> r.st, trials |-> r.trials, bracket |-> <<a, b>>] :
           r \in {brentq(mode, passthrus, st, a, b)} })

\* Transmogrifier.solve_nonlinear (lines 90-103).
Transmogrifier_solve_nonlinear(mode, passthrus, st) ==
    IF mode = "area"
    THEN IF Transmogrifier_subsonic(st.params)
         THEN Transmogrifier_brentq(mode, passthrus, st, brentq_lo, MachOne)
         ELSE Transmogrifier_brentq(mode, passthrus, st, MachOne, brentq_hi)
    ELSE Only({ [err |-> r.err, st |-> r.st, trials |-> <<>>, bracket |-> <<>>] :
                r \in {Transmogrifier_group_solve(mode, passthrus, st)} })

tm_state == [params |-> tm_params, unknowns |-> tm_unknowns, resids |-> tm_resids]

\* Target areas the Driver asks for: none attainable (0), attainable in both
\* brackets, above every area of the subsonic bracket.
AreaTargets == {0, 2 * MaxW, 2 * MaxW * MachOne}

\* Mach numbers the Driver feeds: subsonic, sonic, supersonic.
MachInputs == {MachOne \div 2, MachOne, 2 * MachOne}

\* The Driver writes the Transmogrifier's inbound flow (connect_flow).
Transmogrifier_set_flow ==
    /\ \E k \in 1..MaxFlow, w \in 1..MaxW, mn \in MachInputs :
         tm_params' = [n \in DOMAIN tm_params |->
                          IF n \in DOMAIN FlowIn_tot_var
                          THEN TotVal(FlowIn_tot_var[n], k)
                          ELSE IF n = "Fl_I:stat:W" THEN w
                          ELSE IF n = "Fl_I:stat:MN" THEN mn
                          ELSE tm_params[n]]
    /\ tm_pc' = "idle"
    /\ tm_err' = "none"
    /\ tm_trials' = <<>>
    /\ tm_bracket' = <<>>
    /\ UNCHANGED <<tm_mode, tm_passthrus, tm_unknowns, tm_resids>>
    /\ UNCHANGED <<pf_vars, sp_vars, gr_vars, tl_vars, ct_vars, pl_vars, bf_vars>>

\* The Driver writes the stage's own target: area_out_target and shock, or
\* MN_out_target.
Transmogrifier_set_target ==
    /\ IF tm_mode = "area"
       THEN \E a \in AreaTargets, sh \in BOOLEAN :
              tm_params' = [tm_params EXCEPT !["area_out_target"] = a,
                                             !["shock"] = sh]
       ELSE \E m \in MachInputs :
              tm_params' = [tm_params EXCEPT !["MN_out_target"] = m]
    /\ tm_pc' = "idle"
    /\ tm_err' = "none"
    /\ tm_trials' = <<>>
    /\ tm_bracket' = <<>>
    /\ UNCHANGED <<tm_mode, tm_passthrus, tm_unknowns, tm_resids>>
    /\ UNCHANGED <<pf_vars, sp_vars, gr_vars, tl_vars, ct_vars, pl_vars, bf_vars>>

\* One evaluation of the stage by the framework (solve_nonlinear).
Transmogrifier_solve ==
    /\ tm_pc = "idle"
    /\ \E r \in {Transmogrifier_solve_nonlinear(tm_mode, tm_passthrus, tm_state)} :
           /\ tm_params' = r.st.params
           /\ tm_unknowns' = r.st.unknowns
           /\ tm_resids' = r.st.resids
           /\ tm_err' = r.err
           /\ tm_trials' = r.trials
           /\ tm_bracket' = r.bracket
           /\ tm_pc' = IF r.err = "none" THEN "done" ELSE "failed"
    /\ UNCHANGED <<tm_mode, tm_passthrus>>
    /\ UNCHANGED <<pf_vars, sp_vars, gr_vars, tl_vars, ct_vars, pl_vars, bf_vars>>

\* The framework's residual evaluation of calc (apply_nonlinear), which the
\* Driver's root-finder asks for between solves.
Transmogrifier_apply ==
    /\ tm_mode = "area"
    /\ tm_resids' = TransmogrifierCalc_apply_nonlinear(tm_mode, tm_params, tm_resids)
    /\ UNCHANGED <<tm_mode, tm_passthrus, tm_params, tm_unknowns, tm_pc, tm_err,
                   tm_trials, tm_bracket>>
    /\ UNCHANGED <<pf_vars, sp_vars, gr_vars, tl_vars, ct_vars, pl_vars, bf_vars>>

(* ----------------------------- SplitterW ------------------------------ *)
\* scipy.optimize.newton's default maxiter; the call of line 123 passes none.
newton_maxiter == 50

\* The tuple line 90 loops over.
SplitterW_tot_vars ==
    <<"h", "T", "P", "S", "rho", "gamma", "Cp", "Cv", "n", "n_moles">>

\* range(2), the branch numbers line 91 loops over.
SplitterW_range == <<0, 1>>

\* The (v_name, n) pairs of the nested loop of lines 90-91, in order.
SplitterW_loop ==
    [i \in 1..(Len(SplitterW_tot_vars) * Len(SplitterW_range)) |->
        [v |-> SplitterW_tot_vars[((i - 1) \div Len(SplitterW_range)) + 1],
         n |-> SplitterW_range[((i - 1) % Len(SplitterW_range)) + 1]]]

\* Line 92 for one (v_name, n): the component's name, then PassThrough's two
\* variable names.  The third string, 'Fl_O%d:tot:%s' % v_name, has two
\* specifiers and is given the one str.
SplitterW_passthru(v_name, n) ==
    Only({ [err   |-> IF name.err # "none" THEN name.err
                      ELSE IF i_var.err # "none" THEN i_var.err
                      ELSE o_var.err,
            name  |-> name.s, i_var |-> i_var.s, o_var |-> o_var.s] :
           name  \in {Format(<<"%s", "_passthru_", "%d">>, <<Str(v_name), Num(n)>>)},
           i_var \in {Format(<<"Fl_I:tot:", "%s">>, <<Str(v_name)>>)},
           o_var \in {Format(<<"Fl_O", "%d", ":tot:", "%s">>, <<Str(v_name)>>)} })

RECURSIVE SplitterW_passthru_loop(_, _)
\* The loop of lines 90-92: it adds a PassThrough per iteration and ends at
\* the first iteration that raises.
SplitterW_passthru_loop(i, added) ==
    IF i > Len(SplitterW_loop) THEN [err |-> "none", added |-> added]
    ELSE Only({ IF p.err # "none" THEN [err |-> p.err, added |-> added]
                ELSE SplitterW_passthru_loop(i + 1,
                        added \cup {[name |-> p.name, i_var |-> p.i_var,
                                     o_var |-> p.o_var]}) :
                p \in {SplitterW_passthru(SplitterW_loop[i].v, SplitterW_loop[i].n)} })

\* The names splitter.py binds at module level (its imports and its two
\* classes); line 57 names Splitter, line 45 names mode.
SplitterW_module_names ==
    {"Group", "Component", "newton", "g_c", "AIR_FUEL_MIX", "AIR_MIX", "SetTotal",
     "SetStaticMN", "species_data", "FlowIn", "PassThrough",
     "SplitterWCalc", "SplitterW"}

\* SplitterW.__init__ (lines 56-104), statement by statement: the
\* sub-components add() registers as attributes, the pass-throughs, and the
\* statements that raise (each contributes nothing).
SplitterW_init(mode) ==
    Only({ [attrs     |-> {"mode", "thermo_data", "elements", "gas_prods", "num_prod",
                           "flow_in", "out1_stat", "out2_stat", "split_calc",
                           "FAR_passthru"}
                          \cup {p.name : p \in loop.added},
            passthrus |-> loop.added
                          \cup {[name |-> "FAR_passthru", i_var |-> "Fl_I:FAR",
                                 o_var |-> "Fl_O:FAR"]},
            raises    |-> (IF "Splitter" \in SplitterW_module_names THEN <<>>
                           ELSE <<[line |-> 57, err |-> "NameError"]>>)
                          \o (IF loop.err = "none" THEN <<>>
                              ELSE <<[line |-> 92, err |-> loop.err]>>)] :
           loop \in {SplitterW_passthru_loop(1, {})} })

\* SplitterWCalc.__init__ (lines 16-39): the params and states it declares.
SplitterWCalc_param_names(mode) ==
    {"W1"} \cup (IF mode = "MN" THEN {"MN_out1_target", "MN_out2_target"}
                 ELSE {"area_out1_target", "area_out2_target",
                       "exit_area1", "exit_area2"})

\* The params mapping of a SplitterW(mode=mode) after __init__: FlowIn's
\* inbound flow, split_calc's params, the pass-throughs' inputs.
SplitterW_params_init(mode, init) ==
    [k \in DOMAIN FlowIn_tot_var
           \cup {"Fl_I:stat:MN", "Fl_I:stat:W", "Fl_I:FAR"}
           \cup {p.i_var : p \in init.passthrus}
           \cup SplitterWCalc_param_names(mode) |->
        IF k \in {"MN_out1_target", "MN_out2_target"} THEN MachOne ELSE 0]

\* out<n>_stat after __init__ (SetStaticMN, lines 77-87): its params W and
\* MN_target, its outputs MN and area.
SplitterW_stat_init == [n \in {1, 2} |-> [W |-> 0, MN_target |-> MachOne,
                                          MN |-> 0, area |-> 0, solves |-> 0]]

\* out<n>_stat.solve_nonlinear: the static state at MN_target and W.
SplitterW_stat_solve(stat, n) ==
    [stat EXCEPT ![n].MN = stat[n].MN_target,
                 ![n].area = AreaOf(stat[n].W, stat[n].MN_target),
                 ![n].solves = stat[n].solves + 1]

\* SplitterWCalc.apply_nonlinear (lines 44-50): line 45 tests the bare name
\* mode, which is neither a local nor a module name (the attribute is
\* self.mode): NameError on every call.
SplitterWCalc_apply_nonlinear(mode, params, resids) ==
    IF "mode" \notin SplitterW_module_names
    THEN [err |-> "NameError", resids |-> resids]
    ELSE [err |-> "none",
          resids |-> IF mode = "area"
                     THEN [resids EXCEPT
                             !["area_resid1"] = params["exit_area1"]
                                                - params["area_out1_target"],
                             !["area_resid2"] = params["exit_area2"]
                                                - params["area_out2_target"]]
                     ELSE resids]

\* SplitterWCalc.solve_nonlinear (lines 41-42) calls
\* self.apply_nonlinear(self, params, unknowns, resids): five arguments for a
\* method of four, TypeError on every call.
SplitterWCalc_solve_nonlinear(mode, params, resids) ==
    [err |-> "TypeError", resids |-> resids]

\* Group.solve_nonlinear of the SplitterW (line 126): the children run once
\* in the order added - out1_stat, out2_stat (MN_target over the connections
\* of lines 101-102), the pass-throughs of the loop, split_calc - and the
\* first raise ends the run.
SplitterW_group_solve(mode, init, st) ==
    Only({ Only({ [err |-> c.err, st |-> [s2 EXCEPT !.resids = c.resids]] :
                  c \in {SplitterWCalc_solve_nonlinear(mode, s2.params, s2.resids)} }) :
           s2 \in {[st EXCEPT
                     !.stat = SplitterW_stat_solve(SplitterW_stat_solve(
                                [st.stat EXCEPT
                                   ![1].MN_target = st.params["MN_out1_target"],
                                   ![2].MN_target = st.params["MN_out2_target"]],
                                1), 2),
                     !.unknowns = [k \in DOMAIN st.unknowns |->
                                     IF k = "Fl_O:FAR" THEN st.unknowns[k]
                                     ELSE st.params[
                                            (CHOOSE p \in init.passthrus :
                                                p.o_var = k).i_var]]]} })

\* The closure f of lines 111-116 for branch exit_n: the trial Mach goes to
\* the branch's MN_target, the branch is solved (lines 97-98 connect its
\* area to exit_area<n>), split_calc.apply_nonlinear is run and the branch's
\* residual read.
SplitterW_f(mode, st, Mach_guess, exit_n) ==
    Only({ Only({ [err |-> c.err, st |-> [s1 EXCEPT !.resids = c.resids,
                                                    !.evals = s1.evals + 1],
                   val |-> IF c.err = "none"
                           THEN c.resids[Format(<<"area_resid", "%d">>,
                                                <<Num(exit_n)>>).s]
                           ELSE 0] :
                  c \in {SplitterWCalc_apply_nonlinear(mode, s1.params, s1.resids)} }) :
           s1 \in {[st EXCEPT
                     !.stat = SplitterW_stat_solve(
                                [st.stat EXCEPT ![exit_n].MN_target = Mach_guess],
                                exit_n),
                     !.params[Format(<<"exit_area", "%d">>, <<Num(exit_n)>>).s] =
                         AreaOf(st.stat[exit_n].W, Mach_guess)]} })

RECURSIVE newton_iter(_, _, _, _, _, _, _, _)
\* newton's secant loop: at most newton_maxiter steps, then RuntimeError.
newton_iter(mode, st, exit_n, p0, q0, p1, q1, i) ==
    IF i >= newton_maxiter THEN [err |-> "RuntimeError", st |-> st]
    ELSE IF q1 = q0 THEN [err |-> "none", st |-> st]
    ELSE Only({ IF p = p1 THEN [err |-> "none", st |-> st]
                ELSE Only({ IF r.err # "none" THEN [err |-> r.err, st |-> r.st]
                            ELSE newton_iter(mode, r.st, exit_n, p1, q1, p, r.val,
                                             i + 1) :
                            r \in {SplitterW_f(mode, st, p, exit_n)} }) :
                p \in {p1 - ((q1 * (p1 - p0)) \div (q1 - q0))} })

\* scipy.optimize.newton(f, x0, args=(n,)) as line 123 calls it (no fprime:
\* the secant method): f at x0 and at a point one part in 1e4 beside it,
\* then the loop.  An exception raised by f passes through.
newton(mode, st, x0, exit_n) ==
    Only({ IF r0.err # "none" THEN [err |-> r0.err, st |-> r0.st]
           ELSE Only({ IF r1.err # "none" THEN [err |-> r1.err, st |-> r1.st]
                       ELSE newton_iter(mode, r1.st, exit_n, x0, r0.val,
                                        x0 + (x0 \div MachOne) + 1, r1.val, 0) :
                       r1 \in {SplitterW_f(mode, r0.st,
                                           x0 + (x0 \div MachOne) + 1, exit_n)} }) :
           r0 \in {SplitterW_f(mode, st, x0, exit_n)} })

\* Lines 118-123: branch 2 is solved at the inbound Mach, read as
\* params['Fl_I:stat:Mach'] (FlowIn declares the inbound Mach as
\* 'Fl_I:stat:MN'), then newton is run for branch 1 and for branch 2.
SplitterW_solve_area(mode, st) ==
    IF "Fl_I:stat:Mach" \notin DOMAIN st.params
    THEN [err |-> "KeyError", st |-> st]
    ELSE Only({ IF n1.err # "none" THEN n1
                ELSE newton(mode, n1.st, st.params["Fl_I:stat:Mach"], 2) :
                n1 \in {newton(mode,
                           [st EXCEPT !.stat = SplitterW_stat_solve(
                               [st.stat EXCEPT ![2].MN_target =
                                                  st.params["Fl_I:stat:Mach"]], 2)],
                           st.params["Fl_I:stat:Mach"], 1)} })

\* The attributes lines 107 and 108 write the branch mass flows through.
SplitterW_W_attr(n) == IF n = 1 THEN "out1_static" ELSE "out2_static"

\* Mutant: solve_nonlinear swallows the failure of its first statement and
\* returns.
SplitterW_solve_nonlinear_mut(mode, init, st) == [err |-> "none", st |-> st]

\* SplitterW.solve_nonlinear (lines 106-126).  Lines 107-108 assign the
\* branch mass flows through self.out1_static and self.out2_static; __init__
\* registers the branches as out1_stat and out2_stat, so the first
\* assignment raises AttributeError and nothing is written.
SplitterW_solve_nonlinear(mode, init, st) ==
    IF SplitterW_W_attr(1) \notin init.attrs
    THEN [err |-> "AttributeError", st |-> st]
    ELSE IF SplitterW_W_attr(2) \notin init.attrs
    THEN [err |-> "AttributeError",
          st  |-> [st EXCEPT !.stat[1].W = st.params["W1"]]]
    ELSE Only({ IF mode = "area" THEN SplitterW_solve_area(mode, s1)
                ELSE SplitterW_group_solve(mode, init, s1) :
                s1 \in {[st EXCEPT
                          !.stat[1].W = st.params["W1"],
                          !.stat[2].W = st.params["Fl_I:stat:W"] - st.params["W1"]]} })

sp_state == [params |-> sp_params, stat |-> sp_stat, unknowns |-> sp_unknowns,
             resids |-> sp_resids, evals |-> 0]

\* The Driver writes the splitter's inbound flow (connect_flow).
SplitterW_set_flow ==
    /\ \E k \in 1..MaxFlow, w \in 0..MaxW :
         sp_params' = [n \in DOMAIN sp_params |->
                          IF n \in DOMAIN FlowIn_tot_var
                          THEN TotVal(FlowIn_tot_var[n], k)
                          ELSE IF n = "Fl_I:stat:W" THEN w
                          ELSE sp_params[n]]
    /\ sp_pc' = "idle"
    /\ sp_err' = "none"
    /\ sp_evals' = 0
    /\ UNCHANGED <<sp_mode, sp_init, sp_stat, sp_unknowns, sp_resids>>
    /\ UNCHANGED <<pf_vars, tm_vars, gr_vars, tl_vars, ct_vars, pl_vars, bf_vars>>

\* The Driver writes the splitter's design inputs: W1 and the branch targets.
SplitterW_set_target ==
    /\ \E w1 \in 0..(MaxW + 1) :
         IF sp_mode = "area"
         THEN \E a1 \in AreaTargets, a2 \in AreaTargets :
                sp_params' = [sp_params EXCEPT !["W1"] = w1,
                                               !["area_out1_target"] = a1,
                                               !["area_out2_target"] = a2]
         ELSE \E m1 \in MachInputs, m2 \in MachInputs :
                sp_params' = [sp_params EXCEPT !["W1"] = w1,
                                               !["MN_out1_target"] = m1,
                                               !["MN_out2_target"] = m2]
    /\ sp_pc' = "idle"
    /\ sp_err' = "none"
    /\ sp_evals' = 0
    /\ UNCHANGED <<sp_mode, sp_init, sp_stat, sp_unknowns, sp_resids>>
    /\ UNCHANGED <<pf_vars, tm_vars, gr_vars, tl_vars, ct_vars, pl_vars, bf_vars>>

\* One evaluation of the stage by the framework (solve_nonlinear).
SplitterW_solve ==
    /\ sp_pc = "idle"
    /\ \E r \in {SplitterW_solve_nonlinear(sp_mode, sp_init, sp_state)} :
           /\ sp_params' = r.st.params
           /\ sp_stat' = r.st.stat
           /\ sp_unknowns' = r.st.unknowns
           /\ sp_resids' = r.st.resids
           /\ sp_evals' = r.st.evals
           /\ sp_err' = r.err
           /\ sp_pc' = IF r.err = "none" THEN "done" ELSE "failed"
    /\ UNCHANGED <<sp_mode, sp_init>>
    /\ UNCHANGED <<pf_vars, tm_vars, gr_vars, tl_vars, ct_vars, pl_vars, bf_vars>>

(* --------------------------- TubeLimitFlow ---------------------------- *)
\* The TubeLimitFlow instances evaluated side by side, each in a graph of its
\* own (tube_limit_flow.py lines 81-82 build one).
TubeLimitFlow_instances == {"a", "b"}

\* newton's starting point, 0.3 (tube_limit_flow.py line 49), in Mach units.
TubeLimitFlow_x0 == 3000

\* Integer division as Python's // for a divisor of either sign.
Div(a, b) == IF b > 0 THEN a \div b ELSE (0 - a) \div (0 - b)

\* The value of out[0] before f has run (line 41), and a flow state
\* flowstation.solve(Ts=Ts, Ps=Ps, Mach=Mach) (pycycle) returns: Vflow grows
\* with the Mach number and the temperature.
TubeLimitFlow_None == [none |-> TRUE, Mach |-> 0, Vflow |-> 0]

flowstation_solve(Ts, Mach) == [none |-> FALSE, Mach |-> Mach, Vflow |-> Mach * Ts]

\* The area ratio AR of line 46 at Mach (1.0 = MachOne): it falls with the
\* Mach number up to Mach 1, where it is 1.0; the division by Mach gives it
\* the sign of Mach.
TubeLimitFlow_AR(Mach) ==
    IF Mach > 0 THEN AreaOf(MachOne, Mach) ELSE 0 - AreaOf(MachOne, 0 - Mach)

\* The closure f of lines 42-47: it stashes the flow state in out[0] (line
\* 43) and returns AR - area_ratio_target; line 46 divides by Mach.
TubeLimitFlow_f(inst, Mach) ==
    [out |-> flowstation_solve(inst.params.Ts, Mach),
     err |-> IF Mach = 0 THEN "ZeroDivisionError" ELSE "none",
     val |-> IF Mach = 0 THEN 0 ELSE TubeLimitFlow_AR(Mach) - inst.target]

\* A TubeLimitFlow after __init__ (lines 14-29), with the locals of a
\* solve_nonlinear call: area_ratio_target, bypass_area, and newton's p0, q0,
\* p1, q1, the next trial p, its iteration count and the root it returns.
TubeLimitFlow_init ==
    [params   |-> [r_tube |-> 1, r_inlet |-> 1, Ts |-> 292,
                   Mach_pod |-> MachOne, Mach_bypass |-> (95 * MachOne) \div 100],
     unknowns |-> [k \in {"limit_velocity", "limit_Mach", "W_excess", "W_tube",
                          "W_kant", "tube_area", "inlet_area"} |-> 0],
     pc |-> "idle", err |-> "none", target |-> 0, bypass_area |-> 0,
     p0 |-> 0, q0 |-> 0, p1 |-> 0, q1 |-> 0, p |-> 0, it |-> 0, root |-> 0]

\* newton's tol (its default; line 49 passes none), in steps of the model's
\* Mach resolution: a secant point less than tol from p1 is returned.  The
\* tolerance is coarser than the arithmetic's resolution, as 1.48e-8 is
\* coarser than that of a float.
TubeLimitFlow_tol == 16

Abs(x) == IF x < 0 THEN 0 - x ELSE x

\* The head of newton's secant loop (scipy): after newton_maxiter passes it
\* raises; equal residuals return the midpoint of the last two points; else
\* the secant point p is returned, without f being called on it, when it is
\* within tol of p1, and is the next trial otherwise.
TubeLimitFlow_newton_head(l) ==
    IF l.it >= newton_maxiter
    THEN [l EXCEPT !.pc = "failed", !.err = "RuntimeError"]
    ELSE IF l.q1 = l.q0
    THEN [l EXCEPT !.pc = "finish", !.root = (l.p1 + l.p0) \div 2]
    ELSE Only({ IF Abs(p - l.p1) < TubeLimitFlow_tol
                THEN [l EXCEPT !.pc = "finish", !.root = p]
                ELSE [l EXCEPT !.pc = "f_p", !.p = p] :
                p \in {l.p1 - Div(l.q1 * (l.p1 - l.p0), l.q1 - l.q0)} })

\* Lines 32-41: the areas, the target ratio (a division by bypass_area) and
\* the fresh cell  out = [None];  newton's first two points.
TubeLimitFlow_begin_step(inst) ==
    Only({ IF u.tube_area = u.inlet_area
           THEN [inst |-> [inst EXCEPT !.unknowns = u, !.pc = "failed",
                                       !.err = "ZeroDivisionError"],
                 cell |-> TubeLimitFlow_None, wrote |-> FALSE]
           ELSE [inst |-> [inst EXCEPT
                             !.unknowns = u,
                             !.bypass_area = u.tube_area - u.inlet_area,
                             !.target = Div(u.tube_area * MachOne,
                                            u.tube_area - u.inlet_area),
                             !.p0 = TubeLimitFlow_x0,
                             !.p1 = TubeLimitFlow_x0
                                    + (TubeLimitFlow_x0 \div MachOne) + 1,
                             !.it = 0, !.pc = "f_p0"],
                 cell |-> TubeLimitFlow_None, wrote |-> TRUE] :
           u \in {[inst.unknowns EXCEPT
                     !.tube_area = inst.params.r_tube * inst.params.r_tube,
                     !.inlet_area = inst.params.r_inlet * inst.params.r_inlet]} })

\* One call of f by newton: at p0, at p1, or at the trial p of a loop pass
\* (which then shifts p1, q1 to p0, q0); the loop head follows.
TubeLimitFlow_f_step(inst) ==
    Only({ IF r.err # "none"
           THEN [inst |-> [inst EXCEPT !.pc = "failed", !.err = r.err],
                 cell |-> r.out, wrote |-> TRUE]
           ELSE [inst |-> CASE inst.pc = "f_p0" ->
                                 [inst EXCEPT !.q0 = r.val, !.pc = "f_p1"]
                            [] inst.pc = "f_p1" ->
                                 TubeLimitFlow_newton_head([inst EXCEPT !.q1 = r.val])
                            [] OTHER ->
                                 TubeLimitFlow_newton_head(
                                     [inst EXCEPT !.p0 = inst.p1, !.q0 = inst.q1,
                                                  !.p1 = inst.p, !.q1 = r.val,
                                                  !.it = inst.it + 1]),
                 cell |-> r.out, wrote |-> TRUE] :
           r \in {TubeLimitFlow_f(inst, CASE inst.pc = "f_p0" -> inst.p0
                                          [] inst.pc = "f_p1" -> inst.p1
                                          [] OTHER -> inst.p)} })

\* Lines 49-57: limit_Mach is newton's root, limit_velocity the Vflow of the
\* flow state found in out[0], the mass flows those at Mach_pod and
\* Mach_bypass.
TubeLimitFlow_finish_step(inst, cell) ==
    IF cell.none
    THEN [inst |-> [inst EXCEPT !.unknowns.limit_Mach = inst.root,
                                !.pc = "failed", !.err = "AttributeError"],
          cell |-> cell, wrote |-> FALSE]
    ELSE [inst |-> [inst EXCEPT
                      !.unknowns.limit_Mach = inst.root,
                      !.unknowns.limit_velocity = cell.Vflow,
                      !.unknowns.W_tube =
                          flowstation_solve(inst.params.Ts, inst.params.Mach_pod).Vflow
                          * inst.unknowns.tube_area,
                      !.unknowns.W_kant =
                          flowstation_solve(inst.params.Ts, inst.params.Mach_bypass).Vflow
                          * inst.bypass_area,
                      !.unknowns.W_excess =
                          flowstation_solve(inst.params.Ts, inst.params.Mach_pod).Vflow
                          * inst.unknowns.tube_area
                          - flowstation_solve(inst.params.Ts, inst.params.Mach_bypass).Vflow
                            * inst.bypass_area,
                      !.pc = "done"],
          cell |-> cell, wrote |-> FALSE]

\* The next step of the solve_nonlinear call of inst, given the content of
\* its out[0]: the instance after the step and what the step leaves in the
\* cell (wrote: the step assigned the cell).
TubeLimitFlow_step(inst, cell) ==
    CASE inst.pc = "idle"   -> TubeLimitFlow_begin_step(inst)
      [] inst.pc = "finish" -> TubeLimitFlow_finish_step(inst, cell)
      [] OTHER              -> TubeLimitFlow_f_step(inst)

RECURSIVE TubeLimitFlow_solve_nonlinear(_, _)
\* TubeLimitFlow.solve_nonlinear (lines 31-57) run from start to end with no
\* other evaluation in between.
TubeLimitFlow_solve_nonlinear(inst, cell) ==
    IF inst.pc \in {"done", "failed"} THEN inst
    ELSE Only({ TubeLimitFlow_solve_nonlinear(r.inst, r.cell) :
                r \in {TubeLimitFlow_step(inst, cell)} })

\* Mutant: the cell is one module-level list shared by every call.
TubeLimitFlow_out_mut(i) == "a"

\* The list  out  of a call: line 41 creates it inside solve_nonlinear, so
\* each call, and so each instance, has one of its own.
TubeLimitFlow_out(i) == i

\* The calls in progress other than i's see a step of i's run in between.
TubeLimitFlow_mix(i) ==
    [j \in TubeLimitFlow_instances |->
        IF j = i THEN (tl_inst[i].pc # "idle" /\ tl_mixed[i])
        ELSE tl_mixed[j] \/ tl_inst[j].pc \in {"f_p0", "f_p1", "f_p", "finish"}]

\* The Driver sets the tube and inlet radius of an instance it has not yet
\* evaluated (each instance of the sweep is evaluated once).
TubeLimitFlow_set_params ==
    \E i \in TubeLimitFlow_instances :
        /\ tl_inst[i].pc = "idle"
        /\ \E rt \in 1..MaxRadius : \E ri \in 1..rt :
              tl_inst' = [tl_inst EXCEPT ![i] =
                            [@ EXCEPT !.params.r_tube = rt, !.params.r_inlet = ri,
                                      !.pc = "idle", !.err = "none"]]
        /\ UNCHANGED <<tl_out, tl_mixed>>
        /\ UNCHANGED <<pf_vars, tm_vars, sp_vars, gr_vars, ct_vars, pl_vars, bf_vars>>

\* An instance's solve_nonlinear is entered (lines 32-41).
TubeLimitFlow_begin ==
    \E i \in TubeLimitFlow_instances :
        /\ tl_inst[i].pc = "idle"
        /\ \E r \in {TubeLimitFlow_step(tl_inst[i], tl_out[TubeLimitFlow_out(i)])} :
              /\ tl_inst' = [tl_inst EXCEPT ![i] = r.inst]
              /\ tl_out' = [tl_out EXCEPT ![TubeLimitFlow_out(i)] = r.cell]
        /\ tl_mixed' = TubeLimitFlow_mix(i)
        /\ UNCHANGED <<pf_vars, tm_vars, sp_vars, gr_vars, ct_vars, pl_vars, bf_vars>>

\* newton calls an instance's f once (lines 42-47).
TubeLimitFlow_f_eval ==
    \E i \in TubeLimitFlow_instances :
        /\ tl_inst[i].pc \in {"f_p0", "f_p1", "f_p"}
        /\ \E r \in {TubeLimitFlow_step(tl_inst[i], tl_out[TubeLimitFlow_out(i)])} :
              /\ tl_inst' = [tl_inst EXCEPT ![i] = r.inst]
              /\ tl_out' = [tl_out EXCEPT ![TubeLimitFlow_out(i)] = r.cell]
        /\ tl_mixed' = TubeLimitFlow_mix(i)
        /\ UNCHANGED <<pf_vars, tm_vars, sp_vars, gr_vars, ct_vars, pl_vars, bf_vars>>

\* newton has returned: the instance writes its outputs (lines 49-57).
TubeLimitFlow_finish ==
    \E i \in TubeLimitFlow_instances :
        /\ tl_inst[i].pc = "finish"
        /\ \E r \in {TubeLimitFlow_step(tl_inst[i], tl_out[TubeLimitFlow_out(i)])} :
              /\ tl_inst' = [tl_inst EXCEPT ![i] = r.inst]
              /\ tl_out' = [tl_out EXCEPT ![TubeLimitFlow_out(i)] = r.cell]
        /\ tl_mixed' = TubeLimitFlow_mix(i)
        /\ UNCHANGED <<pf_vars, tm_vars, sp_vars, gr_vars, ct_vars, pl_vars, bf_vars>>

(* ---------------------------- construction --------------------------- *)
\* The mode arguments the Driver constructs with: the two the classes name
\* and some they do not.
Ctor_modes == {"MN", "area", "mn", "Area", "Mach", "volume", ""}

Ctor_classes == {"TransmogrifierCalc", "Transmogrifier", "SplitterWCalc", "SplitterW"}

Stmt(line, kind, name) == [line |-> line, kind |-> kind, name |-> name]

\* TransmogrifierCalc.__init__ (transmogrifier.py lines 14-29).
TransmogrifierCalc_ctor(mode) ==
    << Stmt(15, "super", "TransmogrifierCalc"),
       Stmt(17, "assert", "mode"),
       Stmt(19, "set", "mode") >>
    \o (IF mode = "area"
        THEN << Stmt(22, "add_param", "area_out_target"),
                Stmt(23, "add_param", "area_out"),
                Stmt(24, "add_param", "shock"),
                Stmt(26, "add_state", "area_resid") >>
        ELSE IF mode = "MN" THEN << Stmt(29, "add_param", "MN_out_target") >>
        ELSE << >>)

\* The loop variable of transmogrifier.py line 85.
Transmogrifier_loop == <<"h", "T", "P", "rho", "gamma", "Cp", "Cv", "S", "n", "n_moles">>

\* Transmogrifier.__init__ (transmogrifier.py lines 44-88).
Transmogrifier_ctor(mode) ==
    << Stmt(45, "super", "Transmogrifier"),
       Stmt(50, "check", "mode"),
       Stmt(52, "set", "mode"),
       Stmt(54, "set", "thermo_data"),
       Stmt(55, "set", "elements"),
       Stmt(58, "set", "gas_prods"),
       Stmt(59, "set", "num_prod"),
       Stmt(63, "add", "flow_in"),
       Stmt(67, "add", "set_stat"),
       Stmt(69, "connect", "set_stat.Pt"),
       Stmt(70, "connect", "set_stat.S"),
       Stmt(71, "connect", "set_stat.W"),
       Stmt(77, "add", "calc") >>
    \o (IF mode = "area" THEN << Stmt(80, "connect", "calc.area_out") >>
        ELSE IF mode = "MN" THEN << Stmt(83, "connect", "set_stat.MN_target") >>
        ELSE << >>)
    \o [i \in 1..Len(Transmogrifier_loop) |->
           Stmt(86, "add", "passthru_tot:" \o Transmogrifier_loop[i])]
    \o << Stmt(88, "add", "passthru_FAR") >>

\* SplitterWCalc.__init__ (splitter.py lines 16-39).
SplitterWCalc_ctor(mode) ==
    << Stmt(17, "super", "SplitterWCalc"),
       Stmt(22, "check", "mode"),
       Stmt(24, "set", "mode"),
       Stmt(26, "add_param", "W1") >>
    \o (IF mode = "MN"
        THEN << Stmt(28, "add_param", "MN_out1_target"),
                Stmt(29, "add_param", "MN_out2_target") >>
        ELSE IF mode = "area"
        THEN << Stmt(32, "add_param", "area_out1_target"),
                Stmt(33, "add_param", "area_out2_target"),
                Stmt(35, "add_param", "exit_area1"),
                Stmt(36, "add_param", "exit_area2"),
                Stmt(38, "add_state", "area_resid1"),
                Stmt(39, "add_state", "area_resid2") >>
        ELSE << >>)

\* SplitterW.__init__ (splitter.py lines 56-104), up to the loop of line 90.
SplitterW_ctor(mode) ==
    << Stmt(57, "super", "Splitter"),
       Stmt(62, "check", "mode"),
       Stmt(64, "set", "mode"),
       Stmt(66, "set", "thermo_data"),
       Stmt(67, "set", "elements"),
       Stmt(70, "set", "gas_prods"),
       Stmt(71, "set", "num_prod"),
       Stmt(75, "add", "flow_in"),
       Stmt(78, "add", "out1_stat"),
       Stmt(80, "connect", "out1_stat.Pt"),
       Stmt(81, "connect", "out1_stat.S"),
       Stmt(84, "add", "out2_stat"),
       Stmt(86, "connect", "out2_stat.Pt"),
       Stmt(87, "connect", "out2_stat.S"),
       Stmt(92, "add_loop", "passthru") >>

Ctor_body(class, mode) ==
    IF class = "TransmogrifierCalc" THEN TransmogrifierCalc_ctor(mode)
    ELSE IF class = "Transmogrifier" THEN Transmogrifier_ctor(mode)
    ELSE IF class = "SplitterWCalc" THEN SplitterWCalc_ctor(mode)
    ELSE SplitterW_ctor(mode)

\* The names in scope where the super() call of a class names a class: the
\* module's names.  transmogrifier.py binds both of its classes; splitter.py
\* binds SplitterW_module_names.
Ctor_module_names(class) ==
    IF class \in {"TransmogrifierCalc", "Transmogrifier"}
    THEN {"TransmogrifierCalc", "Transmogrifier"}
    ELSE SplitterW_module_names

\* The test the mode checks make: mode == "area" or mode == "MN".
Ctor_valid(mode) == mode = "area" \/ mode = "MN"

\* What one statement raises ("none": nothing).
Ctor_raises(class, mode, stmt) ==
    IF stmt.kind = "super" /\ stmt.name \notin Ctor_module_names(class)
    THEN "NameError"
    ELSE IF stmt.kind = "assert" /\ ~Ctor_valid(mode) THEN "AssertionError"
    ELSE IF stmt.kind = "check" /\ ~Ctor_valid(mode) THEN "ValueError"
    ELSE IF stmt.kind = "add_loop"
         THEN SplitterW_passthru_loop(1, {}).err
    ELSE "none"

\* A call  <class>(mode=<mode>)  begins.
Ctor_call ==
    /\ ct_pc # "running"
    /\ \E class \in Ctor_classes, mode \in Ctor_modes :
          /\ ct_class' = class
          /\ ct_mode' = mode
    /\ ct_pc' = "running"
    /\ ct_next' = 1
    /\ ct_err' = "none"
    /\ ct_line' = 0
    /\ ct_attrs' = {}
    /\ ct_added' = {}
    /\ UNCHANGED <<pf_vars, tm_vars, sp_vars, gr_vars, tl_vars, pl_vars, bf_vars>>

\* The next statement of the running __init__; an exception ends the call,
\* and so does the end of the body.
Ctor_step ==
    /\ ct_pc = "running"
    /\ \E stmt \in {Ctor_body(ct_class, ct_mode)[ct_next]} :
       \E err \in {Ctor_raises(ct_class, ct_mode, stmt)} :
          IF err # "none"
          THEN /\ ct_pc' = "failed"
               /\ ct_err' = err
               /\ ct_line' = stmt.line
               /\ UNCHANGED <<ct_next, ct_attrs, ct_added>>
          ELSE /\ ct_attrs' = IF stmt.kind = "set" THEN ct_attrs \cup {stmt.name}
                                                   ELSE ct_attrs
               /\ ct_added' = IF stmt.kind \in {"add_param", "add_state", "add"}
                              THEN ct_added \cup {stmt.name} ELSE ct_added
               /\ ct_next' = ct_next + 1
               /\ ct_pc' = IF ct_next = Len(Ctor_body(ct_class, ct_mode))
                           THEN "done" ELSE "running"
               /\ UNCHANGED <<ct_err, ct_line>>
    /\ UNCHANGED <<ct_class, ct_mode>>
    /\ UNCHANGED <<pf_vars, tm_vars, sp_vars, gr_vars, tl_vars, pl_vars, bf_vars>>

(* ------------------------- chart_generator.plot ----------------------- *)
\* Longest x_array and most y variables the Driver sweeps with.
MaxX == 3

MaxY == 2

\* What one pass of the try block (lines 57-65) meets: the run and every read
\* succeed, p.run() raises, or the read (or post-processing) of y variable j
\* raises.
Plot_outcomes(ny) ==
    {[kind |-> "ok", j |-> 0], [kind |-> "run", j |-> 0]}
    \cup {[kind |-> "read", j |-> j] : j \in 1..ny}

\* plot(p, x_array, ..., suppress_errs=...) is called (lines 41-46).
Plot_call ==
    /\ pl_pc \in {"idle", "done", "failed"}
    /\ \E n \in 0..MaxX, ny \in 1..MaxY, sup \in BOOLEAN :
          /\ pl_x' = n
          /\ pl_ny' = ny
          /\ pl_suppress' = sup
          /\ pl_y' = [i \in 1..ny |-> 0]
    /\ pl_pc' = "loop"
    /\ pl_k' = 0
    /\ pl_opt_num' = 0
    /\ pl_stdout' = [cur |-> "__stdout__", closed |-> FALSE]
    /\ pl_raised' = FALSE
    /\ pl_err' = "none"
    /\ pl_drawn' = 0
    /\ UNCHANGED <<pf_vars, tm_vars, sp_vars, gr_vars, tl_vars, ct_vars, bf_vars>>

\* One pass of the sweep loop (lines 47-71).  The run is made with
\* sys.stdout on devnull; after a good run the stream is closed and
\* sys.__stdout__ put back, then the y values are read and appended (lines
\* 60-64).  The bare except of line 66 takes whatever the try block raises,
\* closes sys.stdout, puts sys.__stdout__ back, prints a warning and breaks;
\* if it was a read that raised, sys.stdout was sys.__stdout__ already, the
\* handler closes that, and its print raises ValueError.
Plot_iter ==
    /\ pl_pc = "loop"
    /\ pl_k < pl_x
    /\ pl_k' = pl_k + 1
    /\ \E o \in Plot_outcomes(pl_ny) :
          IF pl_stdout.closed
          THEN /\ pl_pc' = "failed"
               /\ pl_err' = "ValueError"
               /\ UNCHANGED <<pl_opt_num, pl_y, pl_stdout, pl_raised>>
          ELSE IF o.kind = "ok"
          THEN /\ pl_y' = [i \in 1..pl_ny |-> pl_y[i] + 1]
               /\ pl_opt_num' = pl_opt_num + 1
               /\ pl_stdout' = [cur |-> "__stdout__", closed |-> FALSE]
               /\ UNCHANGED <<pl_pc, pl_err, pl_raised>>
          ELSE IF o.kind = "run"
          THEN /\ pl_raised' = TRUE
               /\ pl_stdout' = [cur |-> "__stdout__", closed |-> FALSE]
               /\ pl_pc' = "after"
               /\ UNCHANGED <<pl_opt_num, pl_y, pl_err>>
          ELSE /\ pl_y' = [i \in 1..pl_ny |-> IF i < o.j THEN pl_y[i] + 1 ELSE pl_y[i]]
               /\ pl_stdout' = [cur |-> "__stdout__", closed |-> TRUE]
               /\ pl_pc' = "failed"
               /\ pl_err' = "ValueError"
               /\ UNCHANGED <<pl_opt_num, pl_raised>>
    /\ UNCHANGED <<pl_x, pl_ny, pl_suppress, pl_drawn>>
    /\ UNCHANGED <<pf_vars, tm_vars, sp_vars, gr_vars, tl_vars, ct_vars, bf_vars>>

\* x_array is exhausted: the for statement ends.
Plot_loop_end ==
    /\ pl_pc = "loop"
    /\ pl_k = pl_x
    /\ pl_pc' = "after"
    /\ UNCHANGED <<pl_x, pl_ny, pl_suppress, pl_k, pl_opt_num, pl_y, pl_stdout,
                   pl_raised, pl_err, pl_drawn>>
    /\ UNCHANGED <<pf_vars, tm_vars, sp_vars, gr_vars, tl_vars, ct_vars, bf_vars>>

\* Lines 72-76: the elapsed-time line.  elapsed_s is bound at the top of the
\* loop body (line 48): after a loop of no passes it is unbound.
Plot_after ==
    /\ pl_pc = "after"
    /\ IF pl_k = 0
       THEN pl_pc' = "failed" /\ pl_err' = "UnboundLocalError"
       ELSE pl_pc' = "draw" /\ UNCHANGED pl_err
    /\ UNCHANGED <<pl_x, pl_ny, pl_suppress, pl_k, pl_opt_num, pl_y, pl_stdout,
                   pl_raised, pl_drawn>>
    /\ UNCHANGED <<pf_vars, tm_vars, sp_vars, gr_vars, tl_vars, ct_vars, bf_vars>>

\* The y arrays ax.plot (lines 85-89) draws before it meets one whose length
\* is not len(x_array), which it refuses with ValueError.
Plot_drawable(x, y) ==
    IF \A i \in DOMAIN y : y[i] = x THEN Len(y)
    ELSE (CHOOSE i \in DOMAIN y : y[i] # x /\ \A j \in 1..(i - 1) : y[j] = x) - 1

\* Lines 77-93: the figure and one ax.plot(x_array, y_arrays[i]) per y.
Plot_draw ==
    /\ pl_pc = "draw"
    /\ pl_drawn' = Plot_drawable(pl_x, pl_y)
    /\ IF Plot_drawable(pl_x, pl_y) = pl_ny
       THEN pl_pc' = "done" /\ UNCHANGED pl_err
       ELSE pl_pc' = "failed" /\ pl_err' = "ValueError"
    /\ UNCHANGED <<pl_x, pl_ny, pl_suppress, pl_k, pl_opt_num, pl_y, pl_stdout,
                   pl_raised>>
    /\ UNCHANGED <<pf_vars, tm_vars, sp_vars, gr_vars, tl_vars, ct_vars, bf_vars>>

(* ------------------------------ BypassFlow ---------------------------- *)
\* Largest total_W the Driver feeds, in halves of BypassFlow_eps.
MaxTotalW == 4

\* The margin 1e-3 kg/s of line 80; mass flows are in units of 1e-5 kg/s.
BypassFlow_eps == 100

\* percent_to_bypass is kept in percent: 1.0 is 100.
BypassFlow_percents == {0, 50, 100}

Min(a, b) == IF a <= b THEN a ELSE b

\* Lines 74-79: rhos * Vflow, the mass flux of the bypass at bypass_MN; it
\* grows with the total density rhot and is zero for rhot = 0.
BypassFlow_flux(params) == params.rhot * BypassFlow_eps

\* BypassFlow.solve_nonlinear (hyperloop_sim.py lines 73-80).
BypassFlow_solve_nonlinear(params, unknowns) ==
    [unknowns EXCEPT !.bypass_W =
        Div(params.percent_to_bypass
              * Min(BypassFlow_flux(params) * params.bypass_area,
                    params.total_W - BypassFlow_eps),
            100)]

\* A BypassFlow after __init__ (lines 59-71): rhot 0.0, total_W 0.0,
\* percent_to_bypass 1.0, bypass_area 0.5 (here the unit area), bypass_W 0.0.
BypassFlow_init ==
    [params   |-> [rhot |-> 0, bypass_area |-> 1, total_W |-> 0,
                   percent_to_bypass |-> 100],
     unknowns |-> [bypass_W |-> 0]]

\* The framework feeds rhot and total_W from start (lines 109-111), the
\* Driver bypass_area and percent_to_bypass.
BypassFlow_set_params ==
    /\ \E rhot \in 0..MaxW, area \in 0..MaxW, k \in 0..MaxTotalW,
          pct \in BypassFlow_percents :
          bf_params' = [rhot |-> rhot, bypass_area |-> area,
                        total_W |-> k * (BypassFlow_eps \div 2),
                        percent_to_bypass |-> pct]
    /\ bf_pc' = "idle"
    /\ UNCHANGED bf_unknowns
    /\ UNCHANGED <<pf_vars, tm_vars, sp_vars, gr_vars, tl_vars, ct_vars, pl_vars>>

\* One evaluation of bypass_flow by the framework.
BypassFlow_solve ==
    /\ bf_pc = "idle"
    /\ bf_unknowns' = BypassFlow_solve_nonlinear(bf_params, bf_unknowns)
    /\ bf_pc' = "done"
    /\ UNCHANGED bf_params
    /\ UNCHANGED <<pf_vars, tm_vars, sp_vars, gr_vars, tl_vars, ct_vars, pl_vars>>

(* ------------------- CompressionSystem and the graph ------------------ *)
\* The variables the first loop of connect_flow names (line 37).
CompressionSystem_flow_vars ==
    {"h", "T", "P", "rho", "gamma", "Cp", "Cv", "S", "n", "n_moles"}

\* The prefixes the first loop of connect_flow names (line 38).
CompressionSystem_prefixes == {"tot", "stat"}

\* The static-only variables of the second loop of connect_flow (line 40).
CompressionSystem_stat_vars == {"V", "Vsonic", "MN", "area", "W", "Wc"}

\* connect_flow, lines 37-39: the loop over (v_name, prefix).  Its body is
\*     group.connect('%s:%s:%s' % (Fl_O_name, prefix, v_name),
\*                   '%s:%s:%s' % (Fl_I_name, prefix v_name))
\* whose second tuple lacks a comma between prefix and v_name: the statement
\* is not one Python accepts (SyntaxError) and connects nothing.
CompressionSystem_connect_thermo(Fl_O_name, Fl_I_name) ==
    [err |-> "SyntaxError", conns |-> {}]

\* CompressionSystem.connect_flow(group, Fl_O_name, Fl_I_name), lines 36-42:
\* the connections it makes, as (source, target) pairs, and what it raises.
CompressionSystem_connect_flow(Fl_O_name, Fl_I_name) ==
    Only({ [conns  |-> thermo.conns
                       \cup { <<Format(<<"%s", ":stat:", "%s">>,
                                       <<Str(Fl_O_name), Str(stat)>>).s,
                                Format(<<"%s", ":stat:", "%s">>,
                                       <<Str(Fl_I_name), Str(stat)>>).s>> :
                              stat \in CompressionSystem_stat_vars }
                       \cup { <<Format(<<"%s", ":FAR">>, <<Str(Fl_O_name)>>).s,
                                Format(<<"%s", ":FAR">>, <<Str(Fl_I_name)>>).s>> },
            raises |-> IF thermo.err = "none" THEN <<>>
                       ELSE <<[line |-> 39, err |-> thermo.err]>>] :
           thermo \in {CompressionSystem_connect_thermo(Fl_O_name, Fl_I_name)} })

\* The stages CompressionSystem.__init__ adds, in order (lines 46-52), each
\* with the class it is an instance of.
CompressionSystem_stages ==
    << [name |-> "tube",   class |-> "FlowStart"],
       [name |-> "inlet",  class |-> "Inlet"],
       [name |-> "comp1",  class |-> "Compressor"],
       [name |-> "split",  class |-> "Splitter"],
       [name |-> "nozzle", class |-> "Nozzle"],
       [name |-> "comp2",  class |-> "Compressor"],
       [name |-> "perf",   class |-> "Performance"] >>

\* The connect_flow calls of lines 55-59: (Fl_O_name, Fl_I_name).
CompressionSystem_flow_pairs ==
    { <<"tube", "inlet.Fl_I">>, <<"inlet.Fl_O", "comp1.Fl_I">>,
      <<"comp1.Fl_O", "split.Fl_I">>, <<"split.Fl_O1", "comp2.Fl_I">>,
      <<"split.Fl_O2", "nozzle.Fl_I">> }

\* The connections into perf of lines 61-65: stage and output, param of perf.
CompressionSystem_perf_conns ==
    { [stage |-> "comp1",  var |-> "power",       param |-> "C1_pwr"],
      [stage |-> "comp2",  var |-> "power",       param |-> "C2_pwr"],
      [stage |-> "comp2",  var |-> "Fl_O:stat:P", param |-> "Ps_bearing"],
      [stage |-> "nozzle", var |-> "Fg",          param |-> "Fg"],
      [stage |-> "inlet",  var |-> "F_ram",       param |-> "F_ram"] }

\* A CompressionSystem after __init__ (lines 44-65).
CompressionSystem_init ==
    [stages |-> CompressionSystem_stages,
     conns  |-> UNION { CompressionSystem_connect_flow(pr[1], pr[2]).conns :
                        pr \in CompressionSystem_flow_pairs }
                \cup { <<c.stage \o "." \o c.var, "perf." \o c.param>> :
                       c \in CompressionSystem_perf_conns }]

\* The stages HyperloopSim.__init__ adds before and after compression_system
\* (hyperloop_sim.py lines 87-91 and 94-102).
HyperloopSim_stages_before ==
    << [name |-> "pod",         class |-> "Pod"],
       [name |-> "tube_flow",   class |-> "TubeFlow"],
       [name |-> "start",       class |-> "FlowStart"],
       [name |-> "bypass_flow", class |-> "BypassFlow"],
       [name |-> "split",       class |-> "SplitterW"] >>

HyperloopSim_stages_after ==
    << [name |-> "tube_P_param",             class |-> "IndepVarComp"],
       [name |-> "pod_MN_param",             class |-> "IndepVarComp"],
       [name |-> "internal_bypass_MN_param", class |-> "IndepVarComp"],
       [name |-> "comp2_mouth_MN_param",     class |-> "IndepVarComp"],
       [name |-> "air_bearing_W_param",      class |-> "IndepVarComp"],
       [name |-> "comp1_exit_MN_param",      class |-> "IndepVarComp"],
       [name |-> "comp2_exit_MN_param",      class |-> "IndepVarComp"],
       [name |-> "inlet_area_param",         class |-> "IndepVarComp"] >>

\* The connect calls of HyperloopSim.__init__ (hyperloop_sim.py lines
\* 104-124): the source (a promoted name, or an output of a stage), the stage
\* the target names and the target's variable.
HyperloopSim_connects ==
    { [src |-> "tube_flow.W",          stage |-> "start",       var |-> "W"],
      [src |-> "tube_flow.Pt",         stage |-> "start",       var |-> "P"],
      [src |-> "tube_flow.Tt",         stage |-> "start",       var |-> "T"],
      [src |-> "pod_MN",               stage |-> "start",       var |-> "MN_target"],
      [src |-> "start.Fl_O:tot:rho",   stage |-> "bypass_flow", var |-> "rhot"],
      [src |-> "start.Fl_O:tot:T",     stage |-> "bypass_flow", var |-> "Tt"],
      [src |-> "start.Fl_O:stat:W",    stage |-> "bypass_flow", var |-> "total_W"],
      [src |-> "bypass_W",             stage |-> "split",       var |-> "W1"],
      [src |-> "bypass_area",          stage |-> "split",       var |-> "area_out1_target"],
      [src |-> "inlet_area",           stage |-> "split",       var |-> "area_out2_target"],
      [src |-> "comp2_mouth_MN",       stage |-> "compression_system.split",
                                       var |-> "MN_out1_target"],
      [src |-> "comp1_exit_MN",        stage |-> "compression_system.comp1_funnel",
                                       var |-> "MN_out_target"],
      [src |-> "comp2_exit_MN",        stage |-> "compression_system.comp2_funnel",
                                       var |-> "MN_out_target"],
      [src |-> "internal_bypass_MN",   stage |-> "compression_system.split",
                                       var |-> "MN_out2_target"],
      [src |-> "air_bearing_W",        stage |-> "compression_system.split",
                                       var |-> "W1"],
      [src |-> "tube_P",               stage |-> "compression_system.nozzle",
                                       var |-> "Ps_exhaust"],
      [src |-> "split.Fl_O2:stat:MN",  stage |-> "compression_system.diffuser",
                                       var |-> "MN_out_target"] }

\* The parameters of connect_flow's signature (compression_system.py line 36).
CompressionSystem_connect_flow_params == {"group", "Fl_O_name", "Fl_I_name"}

\* A call connect_flow(group, Fl_O_name, Fl_I_name, <kw>=False, ...): Python
\* refuses a keyword the signature does not name (TypeError) before the body
\* runs.
CompressionSystem_connect_flow_call(Fl_O_name, Fl_I_name, kw) ==
    IF kw \subseteq CompressionSystem_connect_flow_params
    THEN [err |-> "none",
          conns |-> CompressionSystem_connect_flow(Fl_O_name, Fl_I_name).conns]
    ELSE [err |-> "TypeError", conns |-> {}]

\* The connect_flow calls of HyperloopSim.__init__ (hyperloop_sim.py lines
\* 126-127), each with the keywords it passes as False.
HyperloopSim_flow_calls ==
    { [out |-> "start.Fl_O", in |-> "split.Fl_I", kw |-> {"connect_FAR"}],
      [out |-> "split.Fl_O2", in |-> "compression_system.inlet.Fl_I",
       kw |-> {"connect_stat", "connect_FAR"}] }

\* What lines 126-127 of HyperloopSim.__init__ leave: per call, the outcome
\* and the connections made.
HyperloopSim_init_flow ==
    { [call |-> call,
       err |-> CompressionSystem_connect_flow_call(call.out, call.in, call.kw).err,
       conns |-> CompressionSystem_connect_flow_call(call.out, call.in, call.kw).conns] :
      call \in HyperloopSim_flow_calls }

\* The stages a run of the root evaluates, in the order the groups added
\* them; the stages of compression_system (line 92) take its place.
Graph_stages(root, stages) ==
    IF root = "CompressionSystem"
    THEN [i \in 1..Len(stages) |->
             [path |-> stages[i].name, group |-> "CompressionSystem",
              name |-> stages[i].name, class |-> stages[i].class]]
    ELSE [i \in 1..Len(HyperloopSim_stages_before) |->
             [path |-> HyperloopSim_stages_before[i].name, group |-> "HyperloopSim",
              name |-> HyperloopSim_stages_before[i].name,
              class |-> HyperloopSim_stages_before[i].class]]
         \o [i \in 1..Len(stages) |->
             [path |-> "compression_system." \o stages[i].name,
              group |-> "CompressionSystem",
              name |-> stages[i].name, class |-> stages[i].class]]
         \o [i \in 1..Len(HyperloopSim_stages_after) |->
             [path |-> HyperloopSim_stages_after[i].name, group |-> "HyperloopSim",
              name |-> HyperloopSim_stages_after[i].name,
              class |-> HyperloopSim_stages_after[i].class]]

\* Group.solve_nonlinear of the root (OpenMDAO; p.run(), compression_system.py
\* line 95): the stages are solved one after the other; no statement of the
\* repository encloses a stage's solve in a try, so an exception a stage raises
\* ends the run and reaches the caller.  What the run does after stage i of n
\* ended with err.
Group_solve_nonlinear_next(i, n, err) ==
    IF err # "none" THEN [pc |-> "failed", next |-> i]
    ELSE IF i = n THEN [pc |-> "done", next |-> i]
    ELSE [pc |-> "running", next |-> i + 1]

\* The stage the run evaluates next.
Graph_stage == Graph_stages(gr_root, cs_stages)[gr_next]

\* The params of perf that a stage's outputs are connected to (lines 61-65).
Graph_perf_feeds(stage) ==
    IF stage.group = "CompressionSystem"
    THEN {c.param : c \in {x \in CompressionSystem_perf_conns : x.stage = stage.name}}
    ELSE {}

\* The bookkeeping of the run after it evaluated its next stage with err.
Graph_advance(err) ==
    /\ gr_ran' = Append(gr_ran, Graph_stage.path)
    /\ gr_err' = err
    /\ \E nx \in {Group_solve_nonlinear_next(gr_next,
                      Len(Graph_stages(gr_root, cs_stages)), err)} :
           gr_pc' = nx.pc /\ gr_next' = nx.next
    /\ UNCHANGED <<gr_root, cs_stages, cs_conns, hs_flow>>

\* The Driver starts a run of a root group: CompressionSystem (the script of
\* compression_system.py lines 68-95) or HyperloopSim, whose split stage is
\* SplitterW(mode='area') (hyperloop_sim.py line 91).
Graph_begin ==
    /\ gr_pc # "running"
    /\ \E root \in {"CompressionSystem", "HyperloopSim"} :
           /\ root = "HyperloopSim" => sp_mode = "area"
           /\ gr_root' = root
    /\ gr_pc' = "running" /\ gr_next' = 1 /\ gr_err' = "none" /\ gr_ran' = <<>>
    /\ pf_pc' = "idle" /\ pf_err' = "none"
    /\ sp_pc' = "idle" /\ sp_err' = "none" /\ sp_evals' = 0
    /\ UNCHANGED <<pf_params, pf_unknowns, pf_resids, cs_stages, cs_conns, hs_flow>>
    /\ UNCHANGED <<sp_mode, sp_init, sp_params, sp_stat, sp_unknowns, sp_resids>>
    /\ UNCHANGED <<tm_vars, tl_vars, ct_vars, pl_vars, bf_vars>>

\* The run evaluates a stage whose class is not modelled here (pycycle's,
\* OpenMDAO's, Pod, TubeFlow, BypassFlow): its solve returns or raises; when it
\* returns, its outputs reach the params they are connected to - perf's
\* (lines 61-65), and split.W1 from bypass_flow (hyperloop_sim.py line 113).
Graph_step_other ==
    /\ gr_pc = "running"
    /\ Graph_stage.class \notin {"SplitterW", "Performance"}
    /\ \E ok \in BOOLEAN :
        IF ok
        THEN /\ \E vals \in [Graph_perf_feeds(Graph_stage) -> PerfVals] :
                   pf_params' = [k \in DOMAIN pf_params |->
                                    IF k \in DOMAIN vals THEN vals[k]
                                    ELSE pf_params[k]]
             /\ IF Graph_stage.path = "bypass_flow"
                THEN \E w1 \in 0..(MaxW + 1) :
                        sp_params' = [sp_params EXCEPT !["W1"] = w1]
                ELSE UNCHANGED sp_params
             /\ Graph_advance("none")
        ELSE /\ UNCHANGED <<pf_params, sp_params>>
             /\ Graph_advance("StageError")
    /\ UNCHANGED <<pf_unknowns, pf_resids, pf_pc, pf_err>>
    /\ UNCHANGED <<sp_mode, sp_init, sp_stat, sp_unknowns, sp_resids, sp_pc,
                   sp_err, sp_evals>>
    /\ UNCHANGED <<tm_vars, tl_vars, ct_vars, pl_vars, bf_vars>>

\* The run evaluates split, the SplitterW of HyperloopSim.
Graph_step_split ==
    /\ gr_pc = "running"
    /\ Graph_stage.class = "SplitterW"
    /\ \E r \in {SplitterW_solve_nonlinear(sp_mode, sp_init, sp_state)} :
           /\ sp_params' = r.st.params
           /\ sp_stat' = r.st.stat
           /\ sp_unknowns' = r.st.unknowns
           /\ sp_resids' = r.st.resids
           /\ sp_evals' = r.st.evals
           /\ sp_err' = r.err
           /\ sp_pc' = IF r.err = "none" THEN "done" ELSE "failed"
           /\ Graph_advance(r.err)
    /\ UNCHANGED <<sp_mode, sp_init>>
    /\ UNCHANGED <<pf_vars, tm_vars, tl_vars, ct_vars, pl_vars, bf_vars>>

\* The run evaluates perf, the Performance of CompressionSystem.
Graph_step_perf ==
    /\ gr_pc = "running"
    /\ Graph_stage.class = "Performance"
    /\ \E r \in {Performance_solve_nonlinear(pf_params, pf_unknowns, pf_resids)} :
           /\ pf_unknowns' = r.unknowns
           /\ pf_resids' = r.resids
           /\ pf_err' = r.err
           /\ pf_pc' = IF r.err = "none" THEN "done" ELSE "failed"
           /\ Graph_advance(r.err)
    /\ UNCHANGED pf_params
    /\ UNCHANGED <<sp_vars, tm_vars, tl_vars, ct_vars, pl_vars, bf_vars>>

vars == <<pf_vars, tm_vars, sp_vars, gr_vars, tl_vars, ct_vars, pl_vars, bf_vars>>

Init ==
    /\ pf_params = Performance_init.params
    /\ pf_unknowns = Performance_init.unknowns
    /\ pf_resids = Performance_init.resids
    /\ pf_pc = "idle"
    /\ pf_err = "none"
    /\ tm_mode \in {"area", "MN"}
    /\ tm_passthrus = Transmogrifier_passthrus
    /\ tm_params = Transmogrifier_init(tm_mode).params
    /\ tm_unknowns = Transmogrifier_init(tm_mode).unknowns
    /\ tm_resids = Transmogrifier_init(tm_mode).resids
    /\ tm_pc = "idle"
    /\ tm_err = "none"
    /\ tm_trials = <<>>
    /\ tm_bracket = <<>>
    /\ sp_mode \in {"area", "MN"}
    /\ sp_init = SplitterW_init(sp_mode)
    /\ sp_params = SplitterW_params_init(sp_mode, sp_init)
    /\ sp_stat = SplitterW_stat_init
    /\ sp_unknowns = [k \in {p.o_var : p \in sp_init.passthrus} |-> 0]
    /\ sp_resids = [k \in (IF sp_mode = "area" THEN {"area_resid1", "area_resid2"}
                                              ELSE {}) |-> 0]
    /\ sp_pc = "idle"
    /\ sp_err = "none"
    /\ sp_evals = 0
    /\ gr_root = "none"
    /\ gr_pc = "idle"
    /\ gr_next = 1
    /\ gr_err = "none"
    /\ gr_ran = <<>>
    /\ cs_stages = CompressionSystem_init.stages
    /\ cs_conns = CompressionSystem_init.conns
    /\ hs_flow = HyperloopSim_init_flow
    /\ tl_inst = [i \in TubeLimitFlow_instances |-> TubeLimitFlow_init]
    /\ tl_out = [i \in TubeLimitFlow_instances |-> TubeLimitFlow_None]
    /\ tl_mixed = [i \in TubeLimitFlow_instances |-> FALSE]
    /\ ct_class = "none"
    /\ ct_mode = "none"
    /\ ct_pc = "idle"
    /\ ct_next = 1
    /\ ct_err = "none"
    /\ ct_line = 0
    /\ ct_attrs = {}
    /\ ct_added = {}
    /\ pl_pc = "idle"
    /\ pl_x = 0
    /\ pl_ny = 1
    /\ pl_suppress = TRUE
    /\ pl_k = 0
    /\ pl_opt_num = 0
    /\ pl_y = <<0>>
    /\ pl_stdout = [cur |-> "__stdout__", closed |-> FALSE]
    /\ pl_raised = FALSE
    /\ pl_err = "none"
    /\ pl_drawn = 0
    /\ bf_params = BypassFlow_init.params
    /\ bf_unknowns = BypassFlow_init.unknowns
    /\ bf_pc = "idle"

NextPerf == Perf_set_params \/ Perf_solve

NextTm ==
    \/ Transmogrifier_set_flow
    \/ Transmogrifier_set_target
    \/ Transmogrifier_solve
    \/ Transmogrifier_apply

NextSp == SplitterW_set_flow \/ SplitterW_set_target \/ SplitterW_solve

NextGraph == Graph_begin \/ Graph_step_other \/ Graph_step_split \/ Graph_step_perf

NextTube ==
    \/ TubeLimitFlow_set_params
    \/ TubeLimitFlow_begin
    \/ TubeLimitFlow_f_eval
    \/ TubeLimitFlow_finish

NextCtor == Ctor_call \/ Ctor_step

NextBypass == BypassFlow_set_params \/ BypassFlow_solve

NextPlot == Plot_call \/ Plot_iter \/ Plot_loop_end \/ Plot_after \/ Plot_draw

Next == NextPerf \/ NextTm \/ NextSp \/ NextGraph \/ NextTube \/ NextCtor
        \/ NextPlot \/ NextBypass

Spec == Init /\ [][Next]_vars

\* Performance alone, driven by the Driver.
SpecPerf == Init /\ [][NextPerf]_vars

\* The Transmogrifier alone, driven by the Driver.
SpecTm == Init /\ [][NextTm]_vars

\* The SplitterW alone, driven by the Driver.
SpecSp == Init /\ [][NextSp]_vars

\* Runs of a whole graph, stage after stage.
SpecGraph == Init /\ [][NextGraph]_vars

\* TubeLimitFlow instances, their solves interleaved step by step.
SpecTube == Init /\ [][NextTube]_vars

\* Constructions of the four mode-taking classes, statement by statement.
SpecCtor == Init /\ [][NextCtor]_vars

\* Calls of chart_generator.plot, one sweep pass at a time.
SpecPlot == Init /\ [][NextPlot]_vars

\* BypassFlow alone, fed by the Driver.
SpecBypass == Init /\ [][NextBypass]_vars

(* ------------------------------ claims -------------------------------- *)
sp_W_in == sp_params["Fl_I:stat:W"]

sp_W1 == sp_params["W1"]

\* C1: after SplitterW.solve_nonlinear with W1 <= W_in, branch 1 carries the
\* mass flow W1, branch 2 carries W_in - W1, and the two sum to W_in.
C1_BranchFlowsAssigned ==
    (sp_pc # "idle" /\ sp_W1 <= sp_W_in) =>
        /\ sp_stat[1].W = sp_W1
        /\ sp_stat[2].W = sp_W_in - sp_W1
        /\ sp_stat[1].W + sp_stat[2].W = sp_W_in

\* C2: SplitterW.solve_nonlinear with W1 > W_in fails with NegativeFlowError,
\* assigns no negative mass flow to branch 2 and runs no static solve on it.
C2_NegativeFlowError ==
    (sp_pc # "idle" /\ sp_W1 > sp_W_in) =>
        /\ sp_pc = "failed"
        /\ sp_err = "NegativeFlowError"
        /\ sp_stat[2].W >= 0
        /\ sp_stat[2].solves = 0

\* C3: for every total-state variable v, SplitterW has a pass-through from
\* Fl_I:tot:<v> to Fl_O1:tot:<v> and one to Fl_O2:tot:<v>, and after a solve
\* both outbound branches carry the inbound total state.
C3_TotalsPassedToBothBranches ==
    \A v \in TotVars : \A n \in {1, 2} :
        /\ \E p \in sp_init.passthrus :
              /\ p.i_var = "Fl_I:tot:" \o v
              /\ p.o_var = "Fl_O" \o ToString(n) \o ":tot:" \o v
        /\ sp_pc # "idle" =>
              /\ ("Fl_O" \o ToString(n) \o ":tot:" \o v) \in DOMAIN sp_unknowns
              /\ sp_unknowns["Fl_O" \o ToString(n) \o ":tot:" \o v]
                    = sp_params["Fl_I:tot:" \o v]

\* C4: in mode "MN", after solve_nonlinear the Mach target of the static solve
\* is MN_out_target, no root-find trial was made, and every Fl_O:tot:<v>
\* equals the inbound Fl_I:tot:<v>.
C4_MNModePassesTotals ==
    (tm_mode = "MN" /\ tm_pc # "idle") =>
        /\ tm_params["set_stat.MN_target"] = tm_params["MN_out_target"]
        /\ tm_unknowns["Fl_O:stat:MN"] = tm_params["MN_out_target"]
        /\ tm_trials = <<>>
        /\ \A v \in TotVars :
              /\ ("Fl_O:tot:" \o v) \in DOMAIN tm_unknowns
              /\ tm_unknowns["Fl_O:tot:" \o v] = tm_params["Fl_I:tot:" \o v]

\* The bracket C5 names for the inputs of the solve.
C5_Bracket ==
    IF tm_params["Fl_I:stat:MN"] < MachOne \/ tm_params["shock"]
    THEN <<brentq_lo, MachOne>>
    ELSE <<MachOne, brentq_hi>>

\* C5: in mode "area" the root-find runs on [1e-4, 1] when the inbound Mach is
\* below 1 or shock is set, on [1, 50] otherwise, and every Mach it tries and
\* the exit Mach of the state it leaves lie in that one bracket.
C5_TrialsStayInBracket ==
    (tm_mode = "area" /\ tm_pc # "idle") =>
        /\ tm_bracket = C5_Bracket
        /\ \A i \in 1..Len(tm_trials) :
              C5_Bracket[1] <= tm_trials[i] /\ tm_trials[i] <= C5_Bracket[2]
        /\ C5_Bracket[1] <= tm_unknowns["Fl_O:stat:MN"]
        /\ tm_unknowns["Fl_O:stat:MN"] <= C5_Bracket[2]
        /\ tm_params["set_stat.MN_target"] = tm_unknowns["Fl_O:stat:MN"]

\* C5 witness: a supersonic inbound flow with shock set has been solved, on
\* the subsonic bracket.
C5_Witness ==
    /\ tm_mode = "area" /\ tm_pc # "idle"
    /\ tm_params["Fl_I:stat:MN"] > MachOne /\ tm_params["shock"]
    /\ tm_trials # <<>> /\ tm_trials[1] = brentq_lo

\* The area residual at Mach MN for the inputs of the solve.
C6_Resid(MN) == AreaOf(tm_params["Fl_I:stat:W"], MN) - tm_params["area_out_target"]

\* The target area is attained inside the bracket: the residual changes sign
\* between its ends.
C6_Attainable ==
    Sign(C6_Resid(C5_Bracket[1])) * Sign(C6_Resid(C5_Bracket[2])) < 0

C7_ConvergenceErrors == {"ConvergenceError", "ValueError", "RuntimeError"}

\* C7: in mode "area" a solve whose residual has one sign at both ends of the
\* bracket fails with a convergence error and returns no outbound state.
C7_ConvergenceError ==
    (tm_mode = "area" /\ tm_pc # "idle"
        /\ Sign(C6_Resid(C5_Bracket[1])) * Sign(C6_Resid(C5_Bracket[2])) > 0) =>
        /\ tm_pc = "failed"
        /\ tm_err \in C7_ConvergenceErrors

\* C9: Performance computes Fnet = Fg - F_ram from its declared input F_ram.
C9_NetThrust ==
    pf_pc # "idle" =>
        /\ pf_err = "none"
        /\ pf_unknowns["Fnet"] = pf_params["Fg"] - pf_params["F_ram"]

\* C10: Performance computes pwr = C1_pwr + C2_pwr, for all inputs.
C10_TotalPower ==
    pf_pc # "idle" => pf_unknowns["pwr"] = pf_params["C1_pwr"] + pf_params["C2_pwr"]

\* C10 witness: perf has been evaluated on two different compressor powers.
C10_Witness ==
    /\ pf_pc # "idle"
    /\ pf_params["C1_pwr"] = 1 /\ pf_params["C2_pwr"] = 2
    /\ pf_unknowns["pwr"] = 3

\* C11: Performance leaves Ps_bearing_resid = Ps_bearing - Ps_bearing_target
\* after one evaluation, and the residual is zero exactly when the actual
\* bearing pressure equals its target.
C11_BearingResidual ==
    pf_pc # "idle" =>
        /\ pf_resids["Ps_bearing_resid"]
              = pf_params["Ps_bearing"] - pf_params["Ps_bearing_target"]
        /\ (pf_resids["Ps_bearing_resid"] = 0
              <=> pf_params["Ps_bearing"] = pf_params["Ps_bearing_target"])

\* The stages of the graph being run, and the paths of those that ran.
C12_Stages == Graph_stages(gr_root, cs_stages)

C12_Ran(class) ==
    \E i \in 1..Len(gr_ran) : C12_Stages[i].class = class

\* C12: a stage's failure ends the run and reaches the caller.  The stages
\* that ran are the first ones of the graph, each once and in order (nothing
\* is retried, nothing after the failing stage runs); a run that evaluated a
\* SplitterW or a Performance whose solve raises is failed with that stage's
\* exception; a run failed before perf leaves perf unevaluated, and a failed
\* run leaves no stage after the failing one marked done.
C12_FailurePropagates ==
    gr_pc # "idle" =>
        /\ Len(gr_ran) <= Len(C12_Stages)
        /\ \A i \in 1..Len(gr_ran) : gr_ran[i] = C12_Stages[i].path
        /\ (C12_Ran("SplitterW") /\ SplitterW_W_attr(1) \notin sp_init.attrs) =>
              /\ gr_pc = "failed" /\ gr_err = "AttributeError"
              /\ C12_Stages[Len(gr_ran)].class = "SplitterW"
        /\ (C12_Ran("Performance") /\ Performance_ram_key \notin DOMAIN pf_params) =>
              /\ gr_pc = "failed" /\ gr_err = "KeyError"
              /\ C12_Stages[Len(gr_ran)].class = "Performance"
        /\ gr_pc = "failed" =>
              /\ gr_err # "none"
              /\ Len(gr_ran) = gr_next
              /\ ~C12_Ran("Performance") => pf_pc = "idle"
              /\ ~C12_Ran("SplitterW") => sp_pc = "idle"
              /\ pf_pc # "done" /\ sp_pc # "done"

\* C12 witness: a run of HyperloopSim has failed in split with the splitter's
\* exception, four stages after its start, and perf was not evaluated.
C12_Witness ==
    /\ gr_pc = "failed" /\ gr_root = "HyperloopSim"
    /\ gr_ran = <<"pod", "tube_flow", "start", "bypass_flow", "split">>
    /\ gr_err = "AttributeError" /\ sp_pc = "failed"
    /\ pf_pc = "idle"

\* The params that are targets of a connection inside the stage in mode
\* "area" (transmogrifier.py line 80, splitter.py lines 97-98): the framework
\* copies the connected output into them.
C13_Connected == {"calc.area_out", "exit_area1", "exit_area2"}

\* C13: an area-mode solve of the Transmogrifier or of the SplitterW writes
\* no entry of the stage's params mapping that the stage's own connections do
\* not feed: target Mach, target area, W1, shock and the inbound flow keep
\* the value they had when the solve began.
C13_ParamsNotWritten ==
    [][ /\ (tm_mode = "area" /\ tm_pc = "idle" /\ tm_pc' # "idle") =>
              \A k \in DOMAIN tm_params \ C13_Connected :
                  tm_params'[k] = tm_params[k]
        /\ (sp_mode = "area" /\ sp_pc = "idle" /\ sp_pc' # "idle") =>
              \A k \in DOMAIN sp_params \ C13_Connected :
                  sp_params'[k] = sp_params[k] ]_vars

\* The state of a newly constructed Transmogrifier given the named inputs of
\* params: the inbound flow and the Driver's targets; the entries the solve
\* itself feeds (set_stat.MN_target, calc.area_out) are as __init__ left them.
C14_FreshTm ==
    [params   |-> [k \in DOMAIN tm_params |->
                      IF k \in {"set_stat.MN_target", "calc.area_out"}
                      THEN Transmogrifier_init(tm_mode).params[k]
                      ELSE tm_params[k]],
     unknowns |-> Transmogrifier_init(tm_mode).unknowns,
     resids   |-> Transmogrifier_init(tm_mode).resids]

\* The state of a newly constructed SplitterW given the inputs of sp_params.
C14_FreshSp ==
    [params |-> sp_params, stat |-> SplitterW_stat_init,
     unknowns |-> [k \in DOMAIN sp_unknowns |-> 0],
     resids |-> [k \in DOMAIN sp_resids |-> 0], evals |-> 0]

C15_Alone(i) ==
    TubeLimitFlow_solve_nonlinear(
        [TubeLimitFlow_init EXCEPT !.params = tl_inst[i].params],
        TubeLimitFlow_None)

\* C15: with the steps of two TubeLimitFlow evaluations interleaved in any
\* order, an evaluation that has ended left the outcome and the outputs it
\* leaves when run alone, and the flow state in an evaluation's out[0] is one
\* its own f stashed, at one of its own trial Mach numbers.
C15_SameAsAlone ==
    \A i \in TubeLimitFlow_instances :
        /\ tl_inst[i].pc \in {"done", "failed"} =>
              /\ tl_inst[i].err = C15_Alone(i).err
              /\ tl_inst[i].unknowns = C15_Alone(i).unknowns
        /\ tl_inst[i].pc \in {"f_p1", "f_p", "finish"} =>
              /\ ~tl_out[i].none
              /\ tl_out[i].Mach \in {tl_inst[i].p0, tl_inst[i].p1, tl_inst[i].p}

\* C15 witness: two evaluations on different inputs have both returned,
\* each with steps of the other in between, with different limit Mach numbers.
C15_Witness ==
    /\ \A i \in TubeLimitFlow_instances : tl_inst[i].pc = "done" /\ tl_mixed[i]
    /\ tl_inst["a"].params.r_inlet # tl_inst["b"].params.r_inlet
    /\ tl_inst["a"].unknowns.limit_Mach # tl_inst["b"].unknowns.limit_Mach
    /\ tl_inst["a"].unknowns.limit_velocity > 0

\* The classes of the chain the claim states, in its order: flow start, inlet,
\* diffuser (AreaMachSolver), compressor 1, AreaMachSolver, weight-flow
\* splitter, compressor 2, AreaMachSolver, nozzle, performance.
C16_Chain ==
    << "FlowStart", "Inlet", "AreaMachSolver", "Compressor", "AreaMachSolver",
       "SplitterW", "Compressor", "AreaMachSolver", "Nozzle", "Performance" >>

C16_Count(seq, x) == Cardinality({ i \in DOMAIN seq : seq[i] = x })

\* C16: CompressionSystem holds a stage for every stage of the stated chain
\* (as many of each class as the chain has), and every stage with an inbound
\* flow has it connected from an outbound flow.
C16_StageChain ==
    LET classes == [i \in DOMAIN cs_stages |-> cs_stages[i].class] IN
    /\ \A k \in DOMAIN C16_Chain :
          C16_Count(classes, C16_Chain[k]) >= C16_Count(C16_Chain, C16_Chain[k])
    /\ \A i \in DOMAIN cs_stages :
          cs_stages[i].class \notin {"FlowStart", "Performance"} =>
              \E c \in cs_conns : c[2] = cs_stages[i].name \o ".Fl_I:FAR"

\* The connections the claim states for connect_flow(group, out, in).
C17_Stated(Fl_O_name, Fl_I_name) ==
    { <<Fl_O_name \o ":" \o prefix \o ":" \o v_name,
        Fl_I_name \o ":" \o prefix \o ":" \o v_name>> :
      prefix \in CompressionSystem_prefixes, v_name \in CompressionSystem_flow_vars }
    \cup { <<Fl_O_name \o ":stat:" \o stat, Fl_I_name \o ":stat:" \o stat>> :
           stat \in CompressionSystem_stat_vars }
    \cup { <<Fl_O_name \o ":FAR", Fl_I_name \o ":FAR">> }

\* C17: for every stage boundary CompressionSystem wires, the connections
\* connect_flow made are the stated ones (every thermodynamic variable under
\* tot and stat, the static-only variables, FAR) and no others, so the
\* connections of the group are those and the ones into perf.
C17_ConnectFlow ==
    /\ \A pr \in CompressionSystem_flow_pairs :
          CompressionSystem_connect_flow(pr[1], pr[2]).conns
              = C17_Stated(pr[1], pr[2])
    /\ cs_conns = UNION { C17_Stated(pr[1], pr[2]) : pr \in CompressionSystem_flow_pairs }
                  \cup { <<c.stage \o "." \o c.var, "perf." \o c.param>> :
                         c \in CompressionSystem_perf_conns }

\* C18: a construction of Transmogrifier, TransmogrifierCalc, SplitterW or
\* SplitterWCalc that has ended succeeded with the requested mode stored if
\* the mode is "MN" or "area", and otherwise failed at the mode check with
\* nothing added.
C18_ModeChecked ==
    ct_pc \in {"done", "failed"} =>
        IF ct_mode \in {"MN", "area"}
        THEN /\ ct_pc = "done"
             /\ "mode" \in ct_attrs
        ELSE /\ ct_pc = "failed"
             /\ ct_err \in {"ValueError", "AssertionError"}
             /\ ct_added = {}

\* The stage set up for the second solve of C19: the outbound state of the
\* first is the inbound state, and the target is that state's own area.
C19_Again ==
    [tm_state EXCEPT
        !.params["Fl_I:stat:MN"] = tm_unknowns["Fl_O:stat:MN"],
        !.params["area_out_target"] = tm_unknowns["Fl_O:stat:area"]]

C20_Target(n) ==
    IF sp_mode = "area" THEN (IF n = 1 THEN "area_out1_target" ELSE "area_out2_target")
    ELSE (IF n = 1 THEN "MN_out1_target" ELSE "MN_out2_target")

C20_Targets == IF sp_mode = "area" THEN AreaTargets ELSE MachInputs

\* The static state of branch n the solve produces from the state it starts
\* in with branch m's target set to t.
C20_Branch(n, m, t) ==
    SplitterW_solve_nonlinear(sp_mode, sp_init,
        [sp_state EXCEPT !.params[C20_Target(m)] = t]).st.stat[n]

C22_MassFlowConserved ==
    [][ (tm_pc = "idle" /\ tm_pc' # "idle") =>
            /\ tm_params'["Fl_I:stat:W"] = tm_params["Fl_I:stat:W"]
            /\ tm_unknowns'["Fl_O:stat:area"]
                  = AreaOf(tm_params["Fl_I:stat:W"], tm_unknowns'["Fl_O:stat:MN"]) ]_vars

\* C22 witness: a stage in mode "MN" fed the mass flow 2 has been solved for
\* Mach 0.5, and its outbound area is that of the mass flow 2.
C22_Witness ==
    /\ tm_mode = "MN" /\ tm_pc # "idle"
    /\ tm_params["Fl_I:stat:W"] = 2
    /\ tm_unknowns["Fl_O:stat:MN"] = MachOne \div 2
    /\ tm_unknowns["Fl_O:stat:area"] = 4

\* C23: when a run of the problem raises during the sweep, plot stops the
\* sweep and goes on to plot if suppress_errs is true, and is left by the
\* error if suppress_errs is false.
C23_SuppressErrs ==
    (pl_raised /\ pl_pc # "loop") =>
        IF pl_suppress
        THEN pl_opt_num = pl_k - 1 /\ pl_pc \in {"after", "draw", "done", "failed"}
        ELSE pl_pc = "failed" /\ pl_err # "none" /\ pl_drawn = 0

\* The paths of the stages of an assembled HyperloopSim.
C24_Paths ==
    { Graph_stages("HyperloopSim", cs_stages)[i].path :
      i \in DOMAIN Graph_stages("HyperloopSim", cs_stages) }

\* C24: every connection HyperloopSim.__init__ makes ends in a stage that was
\* added to the graph, and the inputs it feeds on its own split stage are
\* inputs the SplitterW declares.
C24_EndpointsExist ==
    \A c \in HyperloopSim_connects :
        /\ c.stage \in C24_Paths
        /\ c.stage = "split" => c.var \in SplitterWCalc_param_names("area")

\* The outbound flows of the splitter that CompressionSystem.__init__ hands
\* to connect_flow (compression_system.py lines 58-59).
C25_Branches == {"Fl_O1", "Fl_O2"}

\* C25: for each outbound flow of SplitterW there is a pass-through from
\* Fl_I:FAR to that flow's FAR, and the FAR source connect_flow names for the
\* flow is an output of the SplitterW.
C25_FARToBothBranches ==
    \A b \in C25_Branches :
        /\ \E p \in sp_init.passthrus :
              p.i_var = "Fl_I:FAR" /\ p.o_var = b \o ":FAR"
        /\ \A c \in CompressionSystem_connect_flow("split." \o b, "x.Fl_I").conns :
              c[1] = "split." \o b \o ":FAR" => (b \o ":FAR") \in DOMAIN sp_unknowns

\* The connections the claim states for connect_flow called with the options
\* of kw set to False.
C26_Stated(Fl_O_name, Fl_I_name, kw) ==
    { <<Fl_O_name \o ":tot:" \o v_name, Fl_I_name \o ":tot:" \o v_name>> :
      v_name \in CompressionSystem_flow_vars }
    \cup (IF "connect_stat" \in kw THEN {}
          ELSE { <<Fl_O_name \o ":stat:" \o v, Fl_I_name \o ":stat:" \o v>> :
                 v \in CompressionSystem_flow_vars \cup CompressionSystem_stat_vars })
    \cup (IF "connect_FAR" \in kw THEN {}
          ELSE { <<Fl_O_name \o ":FAR", Fl_I_name \o ":FAR">> })

\* C26: each connect_flow call of HyperloopSim.__init__ is accepted, and it
\* makes the connections its options select: the total-state variables, the
\* static variables unless connect_stat=False, FAR unless connect_FAR=False.
C26_OptionsAccepted ==
    /\ { r.call : r \in hs_flow } = HyperloopSim_flow_calls
    /\ \A r \in hs_flow :
          /\ r.err = "none"
          /\ r.conns = C26_Stated(r.call.out, r.call.in, r.call.kw)

\* The Mach number brentq returns as the root for the inputs of the solve.
C27_Root == brentq(tm_mode, tm_passthrus, tm_state, C5_Bracket[1], C5_Bracket[2]).root

C28_ConsistentPair ==
    \A i \in TubeLimitFlow_instances :
        tl_inst[i].pc = "done" =>
            /\ tl_out[i].Mach = tl_inst[i].unknowns.limit_Mach
            /\ tl_inst[i].unknowns.limit_velocity
                  = flowstation_solve(tl_inst[i].params.Ts,
                                      tl_inst[i].unknowns.limit_Mach).Vflow

\* C29: for total_W >= 0, bypass_area >= 0 and percent_to_bypass in [0, 1],
\* an evaluation of BypassFlow leaves 0 <= bypass_W < total_W, so that a
\* splitter with W1 = bypass_W and inbound mass flow total_W keeps a positive
\* mass flow total_W - W1 for the compression system.
C29_BypassBelowTotal ==
    (bf_pc = "done" /\ bf_params.total_W >= 0 /\ bf_params.bypass_area >= 0
        /\ bf_params.percent_to_bypass \in 0..100) =>
        /\ 0 <= bf_unknowns.bypass_W
        /\ bf_unknowns.bypass_W < bf_params.total_W
        /\ bf_params.total_W - bf_unknowns.bypass_W > 0

\* C30: once the sweep loop of plot has ended, with every run good or with
\* one failed, sys.stdout is the original stream and open, every y array has
\* as many points as runs succeeded, and each y array about to be plotted has
\* as many points as the x array it is plotted against.
C30_AfterSweep ==
    /\ pl_pc \in {"after", "draw", "done"} =>
          /\ pl_stdout = [cur |-> "__stdout__", closed |-> FALSE]
          /\ \A i \in 1..pl_ny : pl_y[i] = pl_opt_num
    /\ pl_pc = "draw" => \A i \in 1..pl_ny : pl_y[i] = pl_x
====
